---- MODULE Spec2Model ----
(***************************************************************************)
(* cbz2xtc: the page segmentation of optimize_image and the batch driver   *)
(* of main.  A batch is a list of CBZ archives, each a list of page        *)
(* images; main parses the command line into process-wide globals, then a  *)
(* thread pool runs process_cbz_file on every archive, which calls         *)
(* optimize_image on every page.  Only the size of an image matters to     *)
(* the segmentation, so an image is its <<width, height>>.                 *)
(***************************************************************************)
EXTENDS Integers, Sequences, FiniteSets, TLC

VARIABLES
    argv,                     \* the parsed command line (never assigned after parsing)
    cbz,                      \* cbz[a][i]: size of the i-th image of archive a
    cbz_files,                \* cbz_files[a]: the path of archive a, in the order main found it
    max_workers,              \* min(4, os.cpu_count())
    SPECIAL_SPLIT_PAGES,      \* the --special-split tables, one entry per specifier
    SPECIAL_SPLIT_HSPLITS,
    SPECIAL_SPLIT_VSPLITS,
    SPECIAL_SPLIT_BOOLEANS,
    SPECIAL_SPLIT_HOVERLAP,
    SPECIAL_CONTRAST_PAGES,   \* the --special-contrast tables
    SPECIAL_CONTRAST_DARKS,
    SPECIAL_CONTRAST_LIGHTS,
    task,                     \* task[a]: "queued", "running" or "done" (the pool's futures)
    pc,                       \* pc[a]: where the thread of archive a stands
    idx,                      \* idx[a]: page number of the page being processed (enumerate from 1)
    loc,                      \* loc[a]: the locals of the running optimize_image call
    emitted,                  \* emitted[a]: the PNG files written for archive a, in order
    failed,                   \* failed[a]: page numbers whose optimize_image took its except path
    calls,                    \* calls[a]: calls of optimize_image made so far for the page idx[a]
    padding,                  \* a call of save_with_padding: its image, and what it composed
    boost,                    \* a call of contrast_boost_image: its page, and the cutoffs it applied
    gui                       \* the editor window of --gui: its options text and its checkboxes

vars == <<argv, cbz, cbz_files, max_workers, SPECIAL_SPLIT_PAGES, SPECIAL_SPLIT_HSPLITS,
          SPECIAL_SPLIT_VSPLITS, SPECIAL_SPLIT_BOOLEANS, SPECIAL_SPLIT_HOVERLAP,
          SPECIAL_CONTRAST_PAGES, SPECIAL_CONTRAST_DARKS, SPECIAL_CONTRAST_LIGHTS,
          task, pc, idx, loc, emitted, failed, calls, padding, boost, gui>>

\* the calls of single functions and the editor window, which take no part in
\* a batch
Apart == <<padding, boost, gui>>

(***************************************************************************)
(* Bounds of the model.                                                    *)
(***************************************************************************)
MaxHSplit == 3        \* largest --hsplit-count drawn
NumArchives == 2      \* archives of a parallel batch
MaxWorkers == 2       \* largest thread count drawn for a parallel batch
MaxSide == 13         \* largest of the small image sides drawn for save_with_padding
MaxDepth == 3         \* nested calls of optimize_image before the interpreter's recursion limit

(***************************************************************************)
(* Program constants.                                                      *)
(***************************************************************************)
TARGET_WIDTH == 480
SCREEN_HEIGHT == 480         \* the 480 of overlapping_height = 480 / established_scale // 1
DefaultVSegments == 3
DefaultHSegments == 1
DefaultMinVOverlap == 5
DefaultHOverlap == 70
DefaultMaxSplitWidth == 800
MaxVSegments == 26
InitialShiftdown == 99999
TARGET_HEIGHT == 800

\* An alphabet that goes on past z.
letter_keys_past_z ==
    <<"a","b","c","d","e","f","g","h","i","j","k","l","m",
      "n","o","p","q","r","s","t","u","v","w","x","y","z","aa","ab">>

letter_keys ==
    <<"a","b","c","d","e","f","g","h","i","j","k","l","m",
      "n","o","p","q","r","s","t","u","v","w","x","y","z">>

Reverse(s) == [i \in 1..Len(s) |-> s[Len(s) + 1 - i]]

\* list.index / the rank of a letter in the alphabet (file names sort by it)
LetterRank(c) == CHOOSE i \in 1..Len(letter_keys) : letter_keys[i] = c

(***************************************************************************)
(* Python arithmetic.                                                      *)
(***************************************************************************)
\* a // b for b > 0 (floor division, also of negative a)
FloorDiv(a, b) == IF a >= 0 THEN a \div b ELSE -((-a + b - 1) \div b)

\* The double-precision evaluation of  n / (total * 1.0 / width) // 1 .  It is
\* floor(n * width / total) except where the quotient is a whole number k and
\* the two roundings land just below it, giving k - 1.  FloatShort lists those
\* <<n, total, width>> among the widths, segment counts and overlaps drawn here.
FloatShort ==
    { <<480, 800, 790>>, <<480, 1600, 790>> }

FloatFloorQuot(n, total, width) ==
    IF <<n, total, width>> \in FloatShort
    THEN FloorDiv(n * width, total) - 1
    ELSE FloorDiv(n * width, total)

\* (x * 1.0 / y) > (1.0 - .01 * m) for whole x, m and y > 0.  The right side
\* is a double next to (100 - m) / 100; for the m of FloatBelow it lies below
\* it, so that equality of the exact values still compares as "greater".
FloatBelow ==
    {7, 32, 33, 34, 35, 54, 55, 56, 57, 66, 67, 68, 69, 70, 77, 78, 79, 80,
     81, 82, 83, 89, 90, 91, 92, 93, 94, 95}

\* A search that ignores the minimum overlap: it stops as soon as the stride
\* is no more than the tile height.
RatioExceedsOne(x, y, m) ==
    x * 100 > y * 100

RatioExceeds(x, y, m) ==
    \/ x * 100 > y * (100 - m)
    \/ m \in FloatBelow /\ x * 100 = y * (100 - m)

(***************************************************************************)
(* main: the globals the command line resolves to.  An option's value is   *)
(* <<>> when the option is absent and <<value>> when it is given.          *)
(***************************************************************************)
OVERLAP ==
    argv.overlap \/ argv.vsplit_target # <<>> \/ argv.hsplit_count # <<>>

\* "-hsplit-count" (one dash) never matches an option that was parsed as
\* "--hsplit-count", so a horizontal count given alone leaves the vertical 0.
DESIRED_V_OVERLAP_SEGMENTS ==
    IF argv.vsplit_target # <<>> THEN argv.vsplit_target[1]
    ELSE IF argv.overlap THEN DefaultVSegments
    ELSE 0

SET_H_OVERLAP_SEGMENTS ==
    IF argv.hsplit_count # <<>> THEN argv.hsplit_count[1]
    ELSE IF argv.overlap \/ argv.vsplit_target # <<>> THEN DefaultHSegments
    ELSE 0

MINIMUM_V_OVERLAP_PERCENT ==
    IF argv.vsplit_min_overlap # <<>> THEN argv.vsplit_min_overlap[1]
    ELSE DefaultMinVOverlap

SET_H_OVERLAP_PERCENT ==
    IF argv.hsplit_overlap # <<>> THEN argv.hsplit_overlap[1] ELSE DefaultHOverlap

MAX_SPLIT_WIDTH ==
    IF argv.hsplit_max_width # <<>> THEN argv.hsplit_max_width[1]
    ELSE DefaultMaxSplitWidth

IS_MANGA == argv.manga
SPLIT_ALL == argv.split_all
SPECIAL_SPLITS == argv.special_split # <<>>
SPECIAL_CONTRASTS == argv.special_contrast # <<>>
\* --contrast-boost <level> is <<level>> and --contrast-boost <dark>,<light>
\* is <<dark, light>>; CONTRAST_VALUE is False (here <<>>) without the option
CONTRAST_BOOST == argv.contrast_boost # <<>>
CONTRAST_VALUE == IF argv.contrast_boost # <<>> THEN argv.contrast_boost[1] ELSE <<>>

\* The page lists are kept as the texts the command line gave,
\* sys.argv[i+1].split(','), and are compared with str(page_num).
SPLIT_SPREADS == argv.split_spreads # <<>>
SPLIT_SPREADS_PAGES == IF argv.split_spreads # <<>> THEN argv.split_spreads[1] ELSE <<>>
SKIP_ON == argv.skip # <<>>
SKIP_PAGES == IF argv.skip # <<>> THEN argv.skip[1] ELSE <<>>
ONLY_ON == argv.only # <<>>
ONLY_PAGES == IF argv.only # <<>> THEN argv.only[1] ELSE <<>>
DONT_SPLIT_PAGES == IF argv.dont_split # <<>> THEN argv.dont_split[1] ELSE <<>>
\* START_PAGE and STOP_PAGE are False until --start and --stop give a number
START_PAGE == IF argv.start # <<>> THEN argv.start[1] ELSE 0
STOP_PAGE == IF argv.stop # <<>> THEN argv.stop[1] ELSE 0
INCLUDE_OVERVIEWS == argv.include_overviews
SELECT_OVERVIEWS == argv.select_overviews # <<>>
SELECT_OV_PAGES == IF argv.select_overviews # <<>> THEN argv.select_overviews[1] ELSE <<>>
\* MARGIN_VALUE is bound only where --margin is parsed
MARGIN == argv.margin # <<>>
MARGIN_VALUE == argv.margin[1]

\* str(page_num)
PageText == <<"1", "2", "3", "4", "5", "6", "7", "8", "9">>
str(page_num) == PageText[page_num]

\* The options whose value main converts with int(): a text in argv.unparsable
\* names an option given a value with a field that is not a number, for which
\* int() raises ValueError and main ends before any archive is submitted.
IntOptions == {"--special-split", "--special-contrast"}
ParseRaises == argv.unparsable # {}

\* The tables main builds from the --special-split specifiers
\* pagenum-hsplit-vsplit[-booleans[-hoverlap]].  A specifier without booleans
\* stores '' and one with booleans a list of its characters; both are <<>> or
\* a sequence of "0"/"1" here.  The hoverlap default is the value
\* SET_H_OVERLAP_PERCENT has when the specifier is parsed; the argument lists
\* drawn here give --hsplit-overlap before --special-split.
ParsePages(specs) == [i \in 1..Len(specs) |-> specs[i].page]
ParseHSplits(specs) == [i \in 1..Len(specs) |-> specs[i].hsplit]
ParseVSplits(specs) == [i \in 1..Len(specs) |-> specs[i].vsplit]
ParseBooleans(specs) == [i \in 1..Len(specs) |-> specs[i].booleans]
ParseHOverlap(specs, dflt) ==
    [i \in 1..Len(specs) |->
        IF specs[i].hoverlap # <<>> THEN specs[i].hoverlap[1] ELSE dflt]
ParseContrastPages(specs) == [i \in 1..Len(specs) |-> specs[i].page]
ParseContrastDarks(specs) == [i \in 1..Len(specs) |-> specs[i].dark]
ParseContrastLights(specs) == [i \in 1..Len(specs) |-> specs[i].light]

(***************************************************************************)
(* optimize_image: the overlap segmentation of a split page.               *)
(***************************************************************************)
\* page_num in list
InList(x, list) == \E i \in 1..Len(list) : list[i] = x
\* list.index(x)
IndexOf(x, list) == CHOOSE i \in 1..Len(list) :
    list[i] = x /\ \A j \in 1..(i - 1) : list[j] # x

HasSpecialSplit(page_num) ==
    SPECIAL_SPLITS /\ InList(page_num, SPECIAL_SPLIT_PAGES)

special_split_pos(page_num) == IndexOf(page_num, SPECIAL_SPLIT_PAGES)

\* int(x / 100) of Python: truncation toward zero
IntTrunc100(x) == IF x >= 0 THEN x \div 100 ELSE -((-x) \div 100)

number_of_h_segments(page_num) ==
    IF HasSpecialSplit(page_num)
    THEN SPECIAL_SPLIT_HSPLITS[special_split_pos(page_num)]
    ELSE SET_H_OVERLAP_SEGMENTS

h_overlap_percent(page_num) ==
    IF HasSpecialSplit(page_num)
    THEN SPECIAL_SPLIT_HOVERLAP[special_split_pos(page_num)]
    ELSE SET_H_OVERLAP_PERCENT

total_calculated_width(page_num) ==
    MAX_SPLIT_WIDTH * number_of_h_segments(page_num)
      - IntTrunc100((number_of_h_segments(page_num) - 1)
                      * MAX_SPLIT_WIDTH * h_overlap_percent(page_num))

overlapping_width(page_num, width) ==
    FloatFloorQuot(MAX_SPLIT_WIDTH, total_calculated_width(page_num), width)

\* A horizontal stride computed for one column as it is for several.
shiftover_to_overlap_unguarded(page_num, width) ==
    LET n == number_of_h_segments(page_num)
        ow == overlapping_width(page_num, width)
    IN  ow - FloorDiv(ow * n - width, n)

shiftover_to_overlap(page_num, width) ==
    LET n == number_of_h_segments(page_num)
        ow == overlapping_width(page_num, width)
    IN  IF n > 1 THEN ow - FloorDiv(ow * n - width, n - 1) ELSE 0

overlapping_height(page_num, width) ==
    FloatFloorQuot(SCREEN_HEIGHT, total_calculated_width(page_num), width)

\* number_of_v_segments before the search loop
first_v_segments(page_num) ==
    IF HasSpecialSplit(page_num)
    THEN SPECIAL_SPLIT_VSPLITS[special_split_pos(page_num)] - 1
    ELSE DESIRED_V_OVERLAP_SEGMENTS - 1

minimum_v_overlap(page_num) ==
    IF HasSpecialSplit(page_num) THEN -100 ELSE MINIMUM_V_OVERLAP_PERCENT

\* shiftdown_to_overlap as the loop body computes it for nv segments
Shiftdown(nv, oh, height) ==
    IF nv > 1 THEN oh - FloorDiv(oh * nv - height, nv - 1) ELSE 0

\* The search loop: <<number_of_v_segments, shiftdown_to_overlap>> at its exit.
RECURSIVE VSearch(_, _, _, _, _)
VSearch(nv, sd, oh, height, minv) ==
    IF nv < MaxVSegments /\ RatioExceeds(sd, oh, minv)
    THEN VSearch(nv + 1, Shiftdown(nv + 1, oh, height), oh, height, minv)
    ELSE <<nv, sd>>

\* The geometry of a page: the values optimize_image holds when it enters its
\* segment loop, or error = TRUE where computing them raises (a division by a
\* zero scale or by a zero overlapping_height).
Geometry(page_num, width, height) ==
    LET total == total_calculated_width(page_num)
        nv0 == first_v_segments(page_num)
    IN  IF width = 0 \/ total = 0
        THEN [error |-> TRUE]
        ELSE LET oh == overlapping_height(page_num, width)
             IN  IF nv0 < MaxVSegments /\ oh = 0
                 THEN [error |-> TRUE]
                 ELSE LET r == VSearch(nv0, InitialShiftdown, oh, height,
                                       minimum_v_overlap(page_num))
                      IN  [error |-> FALSE,
                           width |-> width,
                           height |-> height,
                           number_of_h_segments |-> number_of_h_segments(page_num),
                           number_of_v_segments |-> r[1],
                           shiftover_to_overlap |-> shiftover_to_overlap(page_num, width),
                           shiftdown_to_overlap |-> r[2],
                           overlapping_height |-> oh]

\* the box of img.crop for segment (v, h), both counted from 0:
\* <<left, upper, right, lower>>
SegmentBox(g, v, h) ==
    <<g.shiftover_to_overlap * h,
      g.shiftdown_to_overlap * v,
      g.width - g.shiftover_to_overlap * (g.number_of_h_segments - h - 1),
      g.height - g.shiftdown_to_overlap * (g.number_of_v_segments - v - 1)>>

\* Image.crop raises ValueError for a box whose right is left of its left or
\* whose lower is above its upper; a box reaching outside the image is padded.
CropRaises(box) == box[3] < box[1] \/ box[4] < box[2]

\* letter_keys[v]: an IndexError past the alphabet
RowLabelRaises(v) == v + 1 > Len(letter_keys)
RowLabel(v) == letter_keys[v + 1]

\* Column letters that ignore the reading direction.
letter_keys_hsplit_ltr == letter_keys

letter_keys_hsplit == IF IS_MANGA THEN Reverse(letter_keys) ELSE letter_keys

ColLabelRaises(g, h) ==
    g.number_of_h_segments > 1 /\ h + 1 > Len(letter_keys_hsplit)
\* "" stands for the file name without a column letter
ColLabel(g, h) ==
    IF g.number_of_h_segments > 1 THEN letter_keys_hsplit[h + 1] ELSE ""

\* save_with_padding of the rotated segment: scale = min(480 / w, 800 / h)
\* divides by a zero side, and Image.resize rejects a scaled side of 0.
SaveRaises(box) ==
    LET img_width == box[4] - box[2]     \* rotated: the segment's height
        img_height == box[3] - box[1]
    IN  \/ img_width = 0 \/ img_height = 0
        \/ IF TARGET_WIDTH * img_height <= TARGET_HEIGHT * img_width
           THEN TARGET_WIDTH * img_height < img_width      \* scale = 480 / w
           ELSE TARGET_HEIGHT * img_width < img_height     \* scale = 800 / h

(***************************************************************************)
(* save_with_padding: the image is scaled by                               *)
(* scale = min(TARGET_WIDTH / img_width, TARGET_HEIGHT / img_height) to    *)
(* int(img_width * scale) x int(img_height * scale) and pasted on a new    *)
(* TARGET_WIDTH x TARGET_HEIGHT canvas.                                    *)
(***************************************************************************)
\* The sides s among those drawn here for which the double s * (480 / s),
\* respectively s * (800 / s), lies below the whole number it stands for.
ShortOfTargetWidth == {11, 13, 732}
ShortOfTargetHeight == {1220}

\* int(side * (target / limit)): the floor of the exact product, except that
\* a whole product comes out one less for the limits listed in short
ScaledSide(side, target, limit, short) ==
    IF limit \in short /\ (side * target) % limit = 0
    THEN (side * target) \div limit - 1
    ELSE (side * target) \div limit

\* <<new_width, new_height>>
ScaledSize(img_width, img_height) ==
    IF TARGET_WIDTH * img_height <= TARGET_HEIGHT * img_width
    THEN <<ScaledSide(img_width, TARGET_WIDTH, img_width, ShortOfTargetWidth),
           ScaledSide(img_height, TARGET_WIDTH, img_width, ShortOfTargetWidth)>>
    ELSE <<ScaledSide(img_width, TARGET_HEIGHT, img_height, ShortOfTargetHeight),
           ScaledSide(img_height, TARGET_HEIGHT, img_height, ShortOfTargetHeight)>>

\* a zero side divides by zero, and Image.resize rejects a scaled side of 0
PaddingRaises(img_width, img_height) ==
    \/ img_width = 0 \/ img_height = 0
    \/ ScaledSize(img_width, img_height)[1] < 1
    \/ ScaledSize(img_width, img_height)[2] < 1

NoPadding == [img_width |-> 0, img_height |-> 0, thumbnail |-> FALSE,
              state |-> "none", new_width |-> 0, new_height |-> 0,
              x |-> 0, y |-> 0, canvas |-> <<0, 0>>]

PaddingCall(img_width, img_height, thumbnail) ==
    [NoPadding EXCEPT !.img_width = img_width, !.img_height = img_height,
                      !.thumbnail = thumbnail, !.state = "called"]

(***************************************************************************)
(* contrast_boost_image: the cutoffs of ImageOps.autocontrast, <<>> where  *)
(* the image is returned as it came.                                       *)
(***************************************************************************)
DefaultContrastLevel == 4
MaxContrastLevel == 8

HasSpecialContrast(page_num) ==
    SPECIAL_CONTRASTS /\ InList(page_num, SPECIAL_CONTRAST_PAGES)

\* <<contrast_black, contrast_white>> of the command line: both 0 without
\* --contrast-boost, the level twice, or the first two values of a list
GlobalContrast ==
    IF CONTRAST_VALUE = <<>> THEN <<0, 0>>
    ELSE IF Len(CONTRAST_VALUE) > 1 THEN <<CONTRAST_VALUE[1], CONTRAST_VALUE[2]>>
    ELSE <<CONTRAST_VALUE[1], CONTRAST_VALUE[1]>>

SpecialContrast(page_num) ==
    <<SPECIAL_CONTRAST_DARKS[IndexOf(page_num, SPECIAL_CONTRAST_PAGES)],
      SPECIAL_CONTRAST_LIGHTS[IndexOf(page_num, SPECIAL_CONTRAST_PAGES)]>>

\* the pair of a page whose special contrast does not replace the command
\* line's
ContrastPairOfCommandLine(page_num) ==
    GlobalContrast

\* <<contrast_black, contrast_white>> after line 103
ContrastPair(page_num) ==
    IF HasSpecialContrast(page_num) THEN SpecialContrast(page_num)
    ELSE GlobalContrast

need_boost(page_num) == CONTRAST_BOOST \/ HasSpecialContrast(page_num)

Cutoff(pair) == <<3 * pair[1], 3 + 9 * pair[2]>>

\* a pair that leaves the image alone: 0 and 0, or one level outside 0..8
LeavesImage(pair) ==
    \/ pair[1] = 0 /\ pair[2] = 0
    \/ pair[1] = pair[2] /\ (pair[1] < 0 \/ pair[1] > MaxContrastLevel)

contrast_cutoff(page_num) ==
    IF need_boost(page_num)
    THEN IF LeavesImage(ContrastPair(page_num)) THEN <<>>
         ELSE Cutoff(ContrastPair(page_num))
    ELSE Cutoff(<<DefaultContrastLevel, DefaultContrastLevel>>)

NoBoost == [page_num |-> 0, state |-> "none", cutoff |-> <<>>]
BoostCall(page_num) == [NoBoost EXCEPT !.page_num = page_num, !.state = "called"]

\* no editor window: the program runs without --gui
NoGui == [open |-> FALSE, options_box |-> <<>>, previous_options |-> <<>>,
          TK |-> <<>>, STRING_ARGS |-> <<>>, events |-> 0]

(***************************************************************************)
(* main: the archives found under the input directory.  A path is the      *)
(* directory of the archive ("." for the input directory itself), its stem *)
(* and its suffix; a tree is the set of the paths that exist.              *)
(***************************************************************************)
\* stems in the order sorted() gives them
Stems == <<"ch1", "ch2", "ch3">>
Subdirs == {"v1", "v2"}

CbzPath(parent, stem, suffix) == [parent |-> parent, stem |-> stem, suffix |-> suffix]

\* sorted(dir.glob("*.cbz")) and sorted(dir.glob("*.CBZ")), from the i-th stem on
RECURSIVE SortedGlob(_, _, _, _)
SortedGlob(tree, parent, suffix, i) ==
    IF i > Len(Stems) THEN <<>>
    ELSE (IF CbzPath(parent, Stems[i], suffix) \in tree
          THEN <<CbzPath(parent, Stems[i], suffix)>> ELSE <<>>)
         \o SortedGlob(tree, parent, suffix, i + 1)

\* the two extend calls for one directory
GlobBoth(tree, parent) ==
    SortedGlob(tree, parent, "cbz", 1) \o SortedGlob(tree, parent, "CBZ", 1)

\* the loop over input_dir.iterdir(), which yields the subdirectories in the
\* order iterdir
RECURSIVE GlobSubdirs(_, _)
GlobSubdirs(tree, iterdir) ==
    IF iterdir = <<>> THEN <<>>
    ELSE GlobBoth(tree, Head(iterdir)) \o GlobSubdirs(tree, Tail(iterdir))

\* cbz_files: the archives of the input directory, those of its
\* subdirectories only when it has none itself.  No path is found twice, so
\* list(dict.fromkeys(cbz_files)) removes nothing.
FindCbzFiles(tree, iterdir) ==
    IF GlobBoth(tree, ".") # <<>> THEN GlobBoth(tree, ".")
    ELSE GlobSubdirs(tree, iterdir)

\* n archives of different stems in the input directory
PlainFiles(n) ==
    FindCbzFiles({CbzPath(".", Stems[i], "cbz") : i \in 1..n}, <<>>)

\* extract_cbz_to_png: output_folder = temp_dir / cbz_path.stem
output_folder(a) == <<".temp_png", cbz_files[a].stem>>

\* process_cbz_file: output_file = output_dir / f"{cbz_path.stem}.xtc"
output_file(a) == <<"xtc_output", cbz_files[a].stem, "xtc">>

\* the path of a PNG file archive a wrote: its folder, and the name made of
\* the page number, the labels and the suffix of the call
PngPath(a, file) ==
    <<output_folder(a), file.page, file.kind, file.row, file.col, file.suffix>>

(***************************************************************************)
(* The state after main has parsed the command line and submitted one      *)
(* process_cbz_file task per archive to its ThreadPoolExecutor.            *)
(***************************************************************************)
Archives == DOMAIN cbz

NoLocals == [width |-> 0, height |-> 0, number_of_h_segments |-> 0,
             number_of_v_segments |-> 0, shiftover_to_overlap |-> 0,
             shiftdown_to_overlap |-> 0, overlapping_height |-> 0,
             v |-> 0, h |-> 0, use_segment_list |-> 0,
             suffix |-> <<>>, pending |-> <<>>]

InitWith(arguments, archives, workers) ==
    /\ argv \in arguments
    /\ cbz \in archives
    /\ max_workers \in workers
    /\ SPECIAL_SPLIT_PAGES = ParsePages(argv.special_split)
    /\ SPECIAL_SPLIT_HSPLITS = ParseHSplits(argv.special_split)
    /\ SPECIAL_SPLIT_VSPLITS = ParseVSplits(argv.special_split)
    /\ SPECIAL_SPLIT_BOOLEANS = ParseBooleans(argv.special_split)
    /\ SPECIAL_SPLIT_HOVERLAP = ParseHOverlap(argv.special_split, SET_H_OVERLAP_PERCENT)
    /\ SPECIAL_CONTRAST_PAGES = ParseContrastPages(argv.special_contrast)
    /\ SPECIAL_CONTRAST_DARKS = ParseContrastDarks(argv.special_contrast)
    /\ SPECIAL_CONTRAST_LIGHTS = ParseContrastLights(argv.special_contrast)
    /\ task = [a \in DOMAIN cbz |-> "queued"]
    /\ pc = [a \in DOMAIN cbz |-> "queued"]
    /\ idx = [a \in DOMAIN cbz |-> 0]
    /\ loc = [a \in DOMAIN cbz |-> NoLocals]
    /\ emitted = [a \in DOMAIN cbz |-> <<>>]
    /\ failed = [a \in DOMAIN cbz |-> {}]
    /\ calls = [a \in DOMAIN cbz |-> 0]

Tables == <<SPECIAL_SPLIT_PAGES, SPECIAL_SPLIT_HSPLITS, SPECIAL_SPLIT_VSPLITS,
            SPECIAL_SPLIT_BOOLEANS, SPECIAL_SPLIT_HOVERLAP,
            SPECIAL_CONTRAST_PAGES, SPECIAL_CONTRAST_DARKS, SPECIAL_CONTRAST_LIGHTS>>

FixedTables == <<SPECIAL_SPLIT_PAGES, SPECIAL_SPLIT_HSPLITS, SPECIAL_SPLIT_VSPLITS,
                 SPECIAL_SPLIT_HOVERLAP,
                 SPECIAL_CONTRAST_PAGES, SPECIAL_CONTRAST_DARKS, SPECIAL_CONTRAST_LIGHTS>>

Inputs == <<argv, cbz, cbz_files, max_workers>>

(***************************************************************************)
(* The thread pool: a worker thread takes the oldest queued task while     *)
(* fewer than max_workers tasks run.                                       *)
(***************************************************************************)
Running == {a \in Archives : task[a] = "running"}

StartTask(a) ==
    /\ ~ParseRaises
    /\ task[a] = "queued"
    /\ \A b \in Archives : b < a => task[b] # "queued"
    /\ Cardinality(Running) < max_workers
    /\ task' = [task EXCEPT ![a] = "running"]
    /\ pc' = [pc EXCEPT ![a] = "extract"]
    /\ UNCHANGED <<Inputs, Apart, Tables, idx, loc, emitted, failed, calls>>

(***************************************************************************)
(* optimize_image, from its entry to the first segment.                    *)
(***************************************************************************)
\* The first three operands of the test that selects overlap segmentation.
\* When all are false Python evaluates the fourth, page_num in
\* SPECIAL_SPLITS_PAGES, a name the program never binds: a NameError.
SegmentationRequested ==
    OVERLAP \/ DESIRED_V_OVERLAP_SEGMENTS # 0 \/ SET_H_OVERLAP_SEGMENTS # 0

\* A page of an archive is <<width, height>>, or <<width, height, fault>> for
\* a member that cannot be read from the archive ("unreadable") or that
\* Image.open cannot decode ("undecodable").
Fault(page) == IF Len(page) > 2 THEN page[3] ELSE "none"

\* The place of uncropped_img in the page, <<left, upper, right, lower>>.  The
\* call with suffix "_1" crops the page to its left half
\* (0, 0, width - int(50/100.0*width), height) and the call with suffix "_2"
\* to its right half (int(50/100.0*width), 0, width, height), the other way
\* round with --manga; every other call keeps the page.
LeftHalf(page) == <<0, 0, page[1] - page[1] \div 2, page[2]>>
RightHalf(page) == <<page[1] \div 2, 0, page[1], page[2]>>

\* the half crops of the normal reading direction in every mode
uncropped_box_never_manga(page, suffix) ==
    IF suffix = <<1>> THEN LeftHalf(page)
    ELSE IF suffix = <<2>> THEN RightHalf(page)
    ELSE <<0, 0, page[1], page[2]>>

uncropped_box(page, suffix) ==
    IF suffix = <<1>> THEN (IF IS_MANGA THEN RightHalf(page) ELSE LeftHalf(page))
    ELSE IF suffix = <<2>> THEN (IF IS_MANGA THEN LeftHalf(page) ELSE RightHalf(page))
    ELSE <<0, 0, page[1], page[2]>>

\* uncropped_img.size
uncropped_img(page, suffix) ==
    <<uncropped_box(page, suffix)[3] - uncropped_box(page, suffix)[1],
      uncropped_box(page, suffix)[4] - uncropped_box(page, suffix)[2]>>

\* the returns of lines 166-181 without the test of the stop page
FilteredNeverStops(page_num) ==
    \/ SKIP_ON /\ InList(str(page_num), SKIP_PAGES)
    \/ START_PAGE # 0 /\ page_num < START_PAGE
    \/ ONLY_ON /\ ~InList(str(page_num), ONLY_PAGES)

\* the returns of lines 166-181 (--skip, --start, --stop and --only); a
\* start or stop page of 0 tests like False
Filtered(page_num) ==
    \/ SKIP_ON /\ InList(str(page_num), SKIP_PAGES)
    \/ START_PAGE # 0 /\ page_num < START_PAGE
    \/ STOP_PAGE # 0 /\ page_num > STOP_PAGE
    \/ ONLY_ON /\ ~InList(str(page_num), ONLY_PAGES)

\* --margin "0", "auto", one percent for all sides, or left,top,right,bottom
MarginZero == [text |-> "0", percents |-> <<>>]
MarginAuto == [text |-> "auto", percents |-> <<>>]
MarginPercents(percents) == [text |-> "", percents |-> percents]

\* int(percent / 100.0 * side)
PercentOf(percent, side) == (percent * side) \div 100

\* the crop box of lines 248-259 <<left, upper, right, lower>>: a list of
\* several percents is filled up with two zeros
MarginBox(percents, width, height) ==
    LET marginlist == IF Len(percents) > 1 THEN percents \o <<0, 0>>
                      ELSE <<percents[1], percents[1], percents[1], percents[1]>>
    IN  <<PercentOf(marginlist[1], width),
          PercentOf(marginlist[2], height),
          width - PercentOf(marginlist[3], width),
          height - PercentOf(marginlist[4], height)>>

\* img.size after lines 238-259, or raises = TRUE: in a recursive call without
\* --margin the name MARGIN_VALUE is not bound, and Image.crop rejects a box
\* turned inside out.  The automatic trim, always taken by a recursive call,
\* keeps an image whose content reaches its four edges as it is.  crop names
\* the crop that was applied: "none", "auto" (the bounding box of lines
\* 243-246) or "percent".
MarginCrop(suffix, width, height) ==
    IF ~(MARGIN \/ suffix # <<>>)
    THEN [raises |-> FALSE, width |-> width, height |-> height, crop |-> "none"]
    ELSE IF ~MARGIN
    THEN [raises |-> TRUE, width |-> 0, height |-> 0, crop |-> "none"]
    ELSE IF MARGIN_VALUE.text = "0"
    THEN [raises |-> FALSE, width |-> width, height |-> height, crop |-> "none"]
    ELSE IF MARGIN_VALUE.text = "auto" \/ suffix # <<>>
    THEN [raises |-> FALSE, width |-> width, height |-> height, crop |-> "auto"]
    ELSE LET box == MarginBox(MARGIN_VALUE.percents, width, height)
         IN  [raises |-> CropRaises(box),
              width |-> box[3] - box[1],
              height |-> box[4] - box[2],
              crop |-> "percent"]

\* lines 265-278
should_this_split(page_num, suffix, width, height) ==
    IF suffix = <<>> /\ InList(str(page_num), DONT_SPLIT_PAGES) THEN FALSE
    ELSE IF SPLIT_ALL THEN TRUE
    ELSE IF InList(str(page_num), SPLIT_SPREADS_PAGES) THEN suffix # <<>>
    ELSE width < height

\* lines 289-293: an overview is saved before the page is split
WithOverview(page_num) ==
    \/ INCLUDE_OVERVIEWS
    \/ SELECT_OVERVIEWS /\ InList(str(page_num), SELECT_OV_PAGES)

\* line 480: the two halves are processed after the spread
HalvesRequested(page_num) ==
    /\ SPLIT_SPREADS
    /\ \/ SPLIT_SPREADS_PAGES[1] = "all"
       \/ InList(str(page_num), SPLIT_SPREADS_PAGES)

\* the list use_segment_list names: 0 for the call's own empty list, else the
\* position of the SPECIAL_SPLIT_BOOLEANS entry it is bound to
SegmentListOf(page_num) ==
    IF HasSpecialSplit(page_num) THEN special_split_pos(page_num) ELSE 0

SegmentFile(page_num, row, col, v, h, box) ==
    [page |-> page_num, kind |-> "segment", row |-> row, col |-> col,
     v |-> v, h |-> h, box |-> box, suffix |-> <<>>]

SpreadFile(page_num, width, height) ==
    [page |-> page_num, kind |-> "spread", row |-> "", col |-> "",
     v |-> 0, h |-> 0, box |-> <<0, 0, width, height>>, suffix |-> <<>>]

\* <page>_0_overview.png: the whole uncropped image, box being its place in
\* the page
OverviewFile(page_num, box) ==
    [page |-> page_num, kind |-> "overview", row |-> "", col |-> "",
     v |-> 0, h |-> 0, box |-> box, suffix |-> <<>>]

\* the file name carries the suffix of the call: <<1, 2>> stands for "_1_2"
Tagged(file, suffix) == [file EXCEPT !.suffix = suffix]

\* The branch of a split page for which no overlap segmentation is requested:
\* the top half img.crop((0, 0, width, half_height)) saved as _2_a and the
\* bottom half img.crop((0, half_height, width, height)) saved as _2_b.
half_height(height) == height \div 2

LegacyFile(page_num, row, v, box) ==
    [page |-> page_num, kind |-> "legacy", row |-> row, col |-> "",
     v |-> v, h |-> 0, box |-> box, suffix |-> <<>>]

LegacyHalves(page_num, width, height) ==
    << LegacyFile(page_num, "a", 0, <<0, 0, width, half_height(height)>>),
       LegacyFile(page_num, "b", 1, <<0, half_height(height), width, height>>) >>

\* What a call that splits its image does from line 301 to its segment loop:
\* "raise" (the except path), "return" (the loops have nothing to do) or
\* "segment" (the loop is entered).
Entry(page_num, width, height) ==
    IF ~SegmentationRequested THEN "raise"
    ELSE LET g == Geometry(page_num, width, height)
         IN  IF g.error THEN "raise"
             ELSE IF g.number_of_v_segments <= 0 \/ g.number_of_h_segments <= 0
                  THEN "return"
                  ELSE "segment"

EntryLocals(page_num, width, height) ==
    LET g == Geometry(page_num, width, height)
    IN  [width |-> width, height |-> height,
         number_of_h_segments |-> g.number_of_h_segments,
         number_of_v_segments |-> g.number_of_v_segments,
         shiftover_to_overlap |-> g.shiftover_to_overlap,
         shiftdown_to_overlap |-> g.shiftdown_to_overlap,
         overlapping_height |-> g.overlapping_height,
         v |-> 0, h |-> 0, use_segment_list |-> SegmentListOf(page_num),
         suffix |-> <<>>, pending |-> <<>>]

\* the two calls with the second half first
HalfCallsSecondFirst(suffix) ==
    <<suffix \o <<2>>, suffix \o <<1>>>>

\* lines 481-482: the suffixes of the two calls a call makes after its spread
HalfCalls(suffix) ==
    <<suffix \o <<1>>, suffix \o <<2>>>>

\* One call of optimize_image from line 261 on: uncropped is the place of
\* its uncropped_img in the page and img the result of MarginCrop.
CallOn(page_num, suffix, uncropped, img) ==
    IF should_this_split(page_num, suffix, img.width, img.height)
    THEN IF img.width = 0                         \* thumbnail_scale = 1.0*0/width
         THEN [way |-> "raise", files |-> <<>>, calls |-> <<>>]
         ELSE IF WithOverview(page_num)
         THEN IF SaveRaises(uncropped)
              THEN [way |-> "raise", files |-> <<>>, calls |-> <<>>]
              ELSE [way |-> Entry(page_num, img.width, img.height),
                    files |-> <<Tagged(OverviewFile(page_num, uncropped), suffix)>>,
                    calls |-> <<>>]
         ELSE [way |-> Entry(page_num, img.width, img.height),
               files |-> <<>>, calls |-> <<>>]
    ELSE IF img.width >= img.height \/ InList(str(page_num), SPLIT_SPREADS_PAGES)
    THEN IF SaveRaises(<<0, 0, img.width, img.height>>)
         THEN [way |-> "raise", files |-> <<>>, calls |-> <<>>]
         ELSE [way |-> "spread",
               files |-> <<Tagged(SpreadFile(page_num, img.width, img.height), suffix)>>,
               calls |-> IF HalvesRequested(page_num) THEN HalfCalls(suffix)
                         ELSE <<>>]
    ELSE IF SaveRaises(uncropped)
         THEN [way |-> "raise", files |-> <<>>, calls |-> <<>>]
         ELSE [way |-> "overview",
               files |-> <<Tagged(OverviewFile(page_num, uncropped), suffix)>>,
               calls |-> <<>>]

\* img of the call with this suffix
CallImage(page, suffix) ==
    MarginCrop(suffix, uncropped_img(page, suffix)[1], uncropped_img(page, suffix)[2])

\* One call of optimize_image up to its segment loop.  way is "raise" (the
\* except path), "return" (nothing more to do), "spread", "overview" or
\* "segment"; files are the files it has saved by then, and calls the
\* suffixes of the calls it makes after saving a spread.  A call nested deeper
\* than MaxDepth ends with the interpreter's RecursionError.
Call(page_num, page, suffix) ==
    IF Len(suffix) > MaxDepth \/ Fault(page) = "undecodable"
    THEN [way |-> "raise", files |-> <<>>, calls |-> <<>>]
    ELSE IF Filtered(page_num)
    THEN [way |-> "return", files |-> <<>>, calls |-> <<>>]
    ELSE IF CallImage(page, suffix).raises
    THEN [way |-> "raise", files |-> <<>>, calls |-> <<>>]
    ELSE CallOn(page_num, suffix, uncropped_box(page, suffix), CallImage(page, suffix))

\* the locals with which a call enters its segment loop
LocalsOn(page_num, img, suffix, pending) ==
    [EntryLocals(page_num, img.width, img.height) EXCEPT
       !.suffix = suffix, !.pending = pending]

CallLocals(page_num, page, suffix, pending) ==
    LocalsOn(page_num, CallImage(page, suffix), suffix, pending)

\* The calls of optimize_image for one page, made in order from the list
\* pending of suffixes, until one of them enters its segment loop or none is
\* left: the thread's place and locals, its files and its failed pages then,
\* and the number of calls made.
\* A call that raises returns 0 to its caller, which goes on.
RECURSIVE Calls(_, _, _, _, _)
\* one call more was made than next counts
OneMore(next) == [next EXCEPT !.made = @ + 1]

AfterCall(page_num, page, pending, files, fails, call) ==
    IF call.way = "segment"
    THEN [pc |-> "segment",
          loc |-> CallLocals(page_num, page, Head(pending), Tail(pending)),
          emitted |-> files \o call.files, failed |-> fails, made |-> 1]
    ELSE OneMore(Calls(page_num, page, call.calls \o Tail(pending),
                       files \o call.files,
                       IF call.way = "raise" THEN fails \cup {page_num} ELSE fails))

Calls(page_num, page, pending, files, fails) ==
    IF pending = <<>>
    THEN [pc |-> "extract", loc |-> NoLocals, emitted |-> files, failed |-> fails,
          made |-> 0]
    ELSE AfterCall(page_num, page, pending, files, fails,
                   Call(page_num, page, Head(pending)))

\* the thread takes up the place, locals, files and failed pages of next,
\* which come after before calls for the page
Become(a, next, before) ==
    /\ calls' = [calls EXCEPT ![a] = before + next.made]
    /\ pc' = [pc EXCEPT ![a] = next.pc]
    /\ loc' = [loc EXCEPT ![a] = next.loc]
    /\ emitted' = [emitted EXCEPT ![a] = next.emitted]
    /\ failed' = [failed EXCEPT ![a] = next.failed]

\* the thread goes on with the calls still to make for its page
Continue(a, files, fails) ==
    Become(a, Calls(idx[a], cbz[a][idx[a]], loc[a].pending, files, fails), calls[a])

\* extract_cbz_to_png reads the next member and calls optimize_image on it.
\* zip_ref.read is outside the try of optimize_image: a member that cannot be
\* read ends the loop over the pages of the archive.
OpenPage(a) ==
    /\ pc[a] = "extract"
    /\ idx[a] < Len(cbz[a])
    /\ idx' = [idx EXCEPT ![a] = idx[a] + 1]
    /\ IF Fault(cbz[a][idx[a] + 1]) = "unreadable"
       THEN /\ pc' = [pc EXCEPT ![a] = "error"]
            /\ calls' = [calls EXCEPT ![a] = 0]
            /\ UNCHANGED <<loc, emitted, failed>>
       ELSE Become(a, Calls(idx[a] + 1, cbz[a][idx[a] + 1], << <<>> >>,
                            emitted[a], failed[a]), 0)
    /\ UNCHANGED <<Inputs, Apart, Tables, task>>

(***************************************************************************)
(* optimize_image: one pass of the segment loop, cut where it reads or     *)
(* writes the list use_segment_list names (another thread may run between  *)
(* any two of these accesses).                                             *)
(***************************************************************************)
\* the list use_segment_list names, as it is now
SegmentList(a) ==
    IF loc[a].use_segment_list = 0 THEN <<>>
    ELSE SPECIAL_SPLIT_BOOLEANS[loc[a].use_segment_list]

CurrentBox(a) == SegmentBox(loc[a], loc[a].v, loc[a].h)

CurrentFile(a) ==
    Tagged(SegmentFile(idx[a], RowLabel(loc[a].v), ColLabel(loc[a], loc[a].h),
                       loc[a].v, loc[a].h, CurrentBox(a)),
           loc[a].suffix)

\* h += 1, and v += 1 at the end of a row: the locals and the next place
Advanced(l) ==
    IF l.h + 1 < l.number_of_h_segments THEN [l EXCEPT !.h = l.h + 1]
    ELSE [l EXCEPT !.h = 0, !.v = l.v + 1]

LoopDone(l) == Advanced(l).v >= l.number_of_v_segments

\* the except path of optimize_image: the call is abandoned and returns 0
Raise(a) == Continue(a, emitted[a], failed[a] \cup {idx[a]})

\* save_with_padding(segment_rotated, output), then on to the pop
Save(a) ==
    IF SaveRaises(CurrentBox(a)) THEN Raise(a)
    ELSE /\ emitted' = [emitted EXCEPT ![a] = Append(@, CurrentFile(a))]
         /\ pc' = [pc EXCEPT ![a] = "pop_len"]
         /\ UNCHANGED <<loc, failed, calls>>

\* img.crop, the output name, and len(use_segment_list) == 0
SegmentCrop(a) ==
    /\ pc[a] = "segment"
    /\ IF \/ CropRaises(CurrentBox(a))
          \/ RowLabelRaises(loc[a].v)
          \/ ColLabelRaises(loc[a], loc[a].h)
       THEN Raise(a)
       ELSE IF Len(SegmentList(a)) = 0 THEN Save(a)
       ELSE /\ pc' = [pc EXCEPT ![a] = "head"]
            /\ UNCHANGED <<loc, emitted, failed, calls>>
    /\ UNCHANGED <<Inputs, Apart, Tables, task, idx>>

\* use_segment_list[0] == "1"
SegmentHead(a) ==
    /\ pc[a] = "head"
    /\ IF Len(SegmentList(a)) = 0 THEN Raise(a)
       ELSE IF Head(SegmentList(a)) = "1" THEN Save(a)
       ELSE /\ pc' = [pc EXCEPT ![a] = "pop_len"]
            /\ UNCHANGED <<loc, emitted, failed, calls>>
    /\ UNCHANGED <<Inputs, Apart, Tables, task, idx>>

\* the end of a pass: the next segment, or the return of optimize_image
NextSegment(a) ==
    IF LoopDone(loc[a]) THEN Continue(a, emitted[a], failed[a])
    ELSE /\ pc' = [pc EXCEPT ![a] = "segment"]
         /\ loc' = [loc EXCEPT ![a] = Advanced(loc[a])]
         /\ UNCHANGED <<emitted, failed, calls>>

\* len(use_segment_list) > 0
SegmentPopLen(a) ==
    /\ pc[a] = "pop_len"
    /\ IF Len(SegmentList(a)) > 0
       THEN /\ pc' = [pc EXCEPT ![a] = "pop"]
            /\ UNCHANGED <<loc, emitted, failed, calls>>
       ELSE NextSegment(a)
    /\ UNCHANGED <<Inputs, Apart, Tables, task, idx>>

\* use_segment_list.pop(0): the list is the table's own entry, not a copy
PopFirst(list) == Tail(list)

SegmentPop(a) ==
    /\ pc[a] = "pop"
    /\ IF Len(SegmentList(a)) = 0
       THEN /\ Raise(a)
            /\ UNCHANGED SPECIAL_SPLIT_BOOLEANS
       ELSE /\ SPECIAL_SPLIT_BOOLEANS' =
                  [SPECIAL_SPLIT_BOOLEANS EXCEPT ![loc[a].use_segment_list] = PopFirst(@)]
            /\ NextSegment(a)
    /\ UNCHANGED <<Inputs, Apart, FixedTables, task, idx>>

(***************************************************************************)
(* process_cbz_file after the last page: the PNG folder goes to the        *)
(* external converter and the task's future completes.  After a member     *)
(* that could not be read extract_cbz_to_png returns None and the task     *)
(* completes without a conversion.                                         *)
(***************************************************************************)
FinishTask(a) ==
    /\ \/ pc[a] = "extract" /\ idx[a] = Len(cbz[a])
       \/ pc[a] = "error"
    /\ task' = [task EXCEPT ![a] = "done"]
    /\ pc' = [pc EXCEPT ![a] = "done"]
    /\ UNCHANGED <<Inputs, Apart, Tables, idx, loc, emitted, failed, calls>>

Next ==
    \/ \E a \in Archives : StartTask(a)
    \/ \E a \in Archives : OpenPage(a)
    \/ \E a \in Archives : SegmentCrop(a)
    \/ \E a \in Archives : SegmentHead(a)
    \/ \E a \in Archives : SegmentPopLen(a)
    \/ \E a \in Archives : SegmentPop(a)
    \/ \E a \in Archives : FinishTask(a)

(***************************************************************************)
(* The inputs drawn.                                                       *)
(***************************************************************************)
Option(values) == {<<>>} \cup {<<x>> : x \in values}

Specifier(page, hsplit, vsplit, booleans, hoverlap) ==
    [page |-> page, hsplit |-> hsplit, vsplit |-> vsplit,
     booleans |-> booleans, hoverlap |-> hoverlap]

\* One page of one archive, over a wide range of command lines and page sizes.
PageSizes ==
    { <<2000, 3000>>, <<2000, 3479>>, <<1001, 1500>>, <<1000, 2000>>,
      <<790, 1200>>, <<2000, 1000>>, <<800, 20000>>, <<60, 2600474>>, <<1, 2>> }

SpecialSplitLists ==
    { <<>>,
      <<Specifier(1, 1, 2, <<>>, <<>>)>>,
      <<Specifier(1, 2, 2, <<"1", "0", "1", "0">>, <<>>)>>,
      <<Specifier(1, 1, 28, <<>>, <<>>)>> }

Arguments ==
    [overlap : BOOLEAN,
     vsplit_target : Option({1, 27, 28}),
     hsplit_count : Option(1..MaxHSplit),
     hsplit_overlap : Option({0}),
     vsplit_min_overlap : Option({0}),
     hsplit_max_width : {<<>>},
     manga : BOOLEAN,
     split_all : BOOLEAN,
     special_split : SpecialSplitLists,
     special_contrast : {<<>>},
     contrast_boost : {<<>>},
     split_spreads : {<<>>},
     dont_split : {<<>>},
     skip : {<<>>},
     only : {<<>>},
     start : {<<>>},
     stop : {<<>>},
     select_overviews : {<<>>},
     include_overviews : {FALSE},
     margin : {<<>>},
     unparsable : {{}}]

Init ==
    /\ InitWith(Arguments, {<<<<size>>>> : size \in PageSizes}, {1})
    /\ padding = NoPadding
    /\ boost = NoBoost
    /\ gui = NoGui
    /\ cbz_files = PlainFiles(Cardinality(DOMAIN cbz))

Spec == Init /\ [][Next]_vars

\* A batch of archives of one page each, run by up to MaxWorkers threads,
\* with an inclusion mask for page 1.
BatchPageSizes == { <<2000, 2500>>, <<2000, 3000>> }

BatchArguments ==
    [overlap : {TRUE},
     vsplit_target : {<<>>},
     hsplit_count : {<<>>},
     hsplit_overlap : {<<>>},
     vsplit_min_overlap : {<<>>},
     hsplit_max_width : {<<>>},
     manga : {FALSE},
     split_all : {FALSE},
     special_split : { <<>>,
                       <<Specifier(1, 2, 2, <<"1", "0", "1", "0">>, <<>>)>>,
                       <<Specifier(1, 1, 2, <<"0">>, <<50>>)>> },
     special_contrast : { <<[page |-> 1, dark |-> 5, light |-> 2]>> },
     contrast_boost : {<<>>},
     split_spreads : {<<>>},
     dont_split : {<<>>},
     skip : {<<>>},
     only : {<<>>},
     start : {<<>>},
     stop : {<<>>},
     select_overviews : {<<>>},
     include_overviews : {FALSE},
     margin : {<<>>},
     unparsable : {{}}]

BatchInit ==
    /\ InitWith(BatchArguments,
                [1..NumArchives -> {<<size>> : size \in BatchPageSizes}],
                1..MaxWorkers)
    /\ padding = NoPadding
    /\ boost = NoBoost
    /\ gui = NoGui
    /\ cbz_files = PlainFiles(Cardinality(DOMAIN cbz))

BatchSpec == BatchInit /\ [][Next]_vars

\* Two archives run one after the other under the options that decide what
\* becomes of a page: the first has a portrait page, a landscape page, a page
\* twice as wide as it is high, or a member that cannot be decoded or read
\* followed by a good page; the second is one portrait page.
PolicyArchives ==
    { << <<2000, 3000>> >>,
      << <<3000, 2000>> >>,
      << <<4000, 2000>> >>,
      << <<2000, 3000, "undecodable">>, <<2000, 3000>> >>,
      << <<2000, 3000, "unreadable">>, <<2000, 3000>> >> }

PolicyMargins ==
    { <<>>, <<MarginAuto>>, <<MarginPercents(<<50, 0, 50, 0>>)>>,
      <<MarginPercents(<<0, 50, 0, 50>>)>>, <<MarginPercents(<<60>>)>> }

PolicyArguments ==
    [overlap : BOOLEAN,
     vsplit_target : {<<>>},
     hsplit_count : {<<>>},
     hsplit_overlap : {<<>>},
     vsplit_min_overlap : {<<>>},
     hsplit_max_width : {<<>>},
     manga : {FALSE},
     split_all : BOOLEAN,
     special_split : { <<>>, <<Specifier(1, 1, 2, <<"1", "0">>, <<>>)>> },
     special_contrast : {<<>>},
     contrast_boost : {<<>>},
     split_spreads : { <<>>, << <<"all">> >>, << <<"1">> >> },
     dont_split : { <<>>, << <<"1">> >> },
     skip : { <<>>, << <<"x">> >> },
     only : {<<>>},
     start : {<<>>},
     stop : {<<>>},
     select_overviews : {<<>>},
     include_overviews : BOOLEAN,
     margin : PolicyMargins,
     unparsable : { {}, {"--special-split"} }]

PolicyInit ==
    /\ InitWith(PolicyArguments,
                { <<first, << <<2000, 3000>> >> >> : first \in PolicyArchives },
                {1})
    /\ argv.unparsable \subseteq IntOptions
    /\ padding = NoPadding
    /\ boost = NoBoost
    /\ gui = NoGui
    /\ cbz_files = PlainFiles(Cardinality(DOMAIN cbz))

PolicySpec == PolicyInit /\ [][Next]_vars

\* One call of save_with_padding on an image of any shape, with and without
\* a thumbnail; no archive is processed.
Sides == (1..MaxSide) \cup {732, 1200, 1220, 2000}

NoArguments ==
    [overlap |-> FALSE, vsplit_target |-> <<>>, hsplit_count |-> <<>>,
     hsplit_overlap |-> <<>>, vsplit_min_overlap |-> <<>>, hsplit_max_width |-> <<>>,
     manga |-> FALSE, split_all |-> FALSE, special_split |-> <<>>,
     special_contrast |-> <<>>, contrast_boost |-> <<>>,
     split_spreads |-> <<>>, dont_split |-> <<>>,
     skip |-> <<>>, only |-> <<>>, start |-> <<>>, stop |-> <<>>,
     select_overviews |-> <<>>,
     include_overviews |-> FALSE, margin |-> <<>>, unparsable |-> {}]

PadInit ==
    /\ InitWith({NoArguments}, {<<>>}, {1})
    /\ padding \in {PaddingCall(w, h, t) : w \in Sides, h \in Sides, t \in BOOLEAN}
    /\ boost = NoBoost
    /\ gui = NoGui
    /\ cbz_files = PlainFiles(Cardinality(DOMAIN cbz))

save_with_padding ==
    /\ padding.state = "called"
    /\ LET size == ScaledSize(padding.img_width, padding.img_height)
       IN  padding' =
             IF PaddingRaises(padding.img_width, padding.img_height)
             THEN [padding EXCEPT !.state = "raised"]
             ELSE [padding EXCEPT
                     !.state = "saved",
                     !.new_width = size[1],
                     !.new_height = size[2],
                     !.canvas = <<TARGET_WIDTH, TARGET_HEIGHT>>,
                     !.x = FloorDiv(TARGET_WIDTH - size[1], 2),
                     !.y = IF padding.thumbnail
                           THEN TARGET_HEIGHT - size[2]
                           ELSE FloorDiv(TARGET_HEIGHT - size[2], 2)]
    /\ UNCHANGED <<Inputs, boost, gui, Tables, task, pc, idx, loc, emitted, failed, calls>>

PadNext == save_with_padding

PadSpec == PadInit /\ [][PadNext]_vars

\* One archive of three pages, the second a spread, under every combination
\* of a few --skip, --only, --start and --stop values, with and without the
\* halves of spreads and a special split of page 1.
FilterLists(values) == {<<>>} \cup {<<list>> : list \in values}

FilterArguments ==
    { [NoArguments EXCEPT
         !.overlap = TRUE,
         !.margin = <<MarginAuto>>,
         !.skip = skip, !.only = only, !.start = start, !.stop = stop,
         !.split_spreads = spreads, !.special_split = special] :
      skip \in FilterLists({<<"2">>, <<"1", "3">>}),
      only \in FilterLists({<<"2">>, <<"1", "2">>}),
      start \in Option({0, 2, 3}),
      stop \in Option({0, 1, 2}),
      spreads \in FilterLists({<<"all">>}),
      special \in { <<>>, <<Specifier(1, 1, 2, <<"1", "0">>, <<>>)>> } }

FilterInit ==
    /\ InitWith(FilterArguments,
                { << << <<2000, 3000>>, <<3000, 2000>>, <<2000, 3000>> >> >> },
                {1})
    /\ padding = NoPadding
    /\ boost = NoBoost
    /\ gui = NoGui
    /\ cbz_files = PlainFiles(Cardinality(DOMAIN cbz))

FilterSpec == FilterInit /\ [][Next]_vars

\* One call of contrast_boost_image for page 1 or 2, under every combination
\* of a few --contrast-boost values and --special-contrast specifiers of
\* page 1; no archive is processed.
ContrastSpecifier(page, dark, light) == [page |-> page, dark |-> dark, light |-> light]

ContrastValues ==
    { <<0>>, <<4>>, <<6>>, <<8>>, <<9>>, <<2, 5>>, <<5, 2>>, <<0, 0>>, <<9, 9>>, <<0, 3>> }

ContrastArguments ==
    { [NoArguments EXCEPT !.contrast_boost = value, !.special_contrast = special] :
      value \in {<<>>} \cup {<<v>> : v \in ContrastValues},
      special \in {<<>>} \cup
                  { <<ContrastSpecifier(1, pair[1], pair[2])>> :
                    pair \in { <<0, 0>>, <<2, 5>>, <<3, 3>>, <<8, 8>>, <<9, 9>>,
                               <<0, 4>>, <<10, 1>> } } }

ContrastInit ==
    /\ InitWith(ContrastArguments, {<<>>}, {1})
    /\ padding = NoPadding
    /\ boost \in {BoostCall(page_num) : page_num \in 1..2}
    /\ gui = NoGui
    /\ cbz_files = PlainFiles(Cardinality(DOMAIN cbz))

contrast_boost_image ==
    /\ boost.state = "called"
    /\ boost' = [boost EXCEPT !.state = "returned",
                              !.cutoff = contrast_cutoff(boost.page_num)]
    /\ UNCHANGED <<Inputs, padding, gui, Tables, task, pc, idx, loc, emitted, failed, calls>>

ContrastNext == contrast_boost_image

ContrastSpec == ContrastInit /\ [][ContrastNext]_vars

\* A batch of archives of one page each, found in any tree of archives named
\* by two stems and two suffixes in the input directory and its two
\* subdirectories, and run by up to MaxWorkers threads.
TreePaths ==
    {CbzPath(parent, Stems[i], suffix) :
        parent \in {"."} \cup Subdirs, i \in 1..2, suffix \in {"cbz", "CBZ"}}

IterdirOrders == { <<"v1", "v2">>, <<"v2", "v1">> }

NamesArguments ==
    {arguments \in BatchArguments :
        arguments.special_split = <<Specifier(1, 1, 2, <<"0">>, <<50>>)>>}

NamesInit ==
    /\ InitWith(NamesArguments, [1..NumArchives -> { << <<2000, 3000>> >> }],
                1..MaxWorkers)
    /\ padding = NoPadding
    /\ boost = NoBoost
    /\ gui = NoGui
    /\ cbz_files \in {FindCbzFiles(tree, iterdir) :
                         tree \in SUBSET TreePaths, iterdir \in IterdirOrders}
    /\ Len(cbz_files) = NumArchives

NamesSpec == NamesInit /\ [][Next]_vars

\* One archive of one page, portrait, landscape, landscape of odd width or
\* twice as wide as high, under the options that split a spread into its
\* halves: every crop mode, both reading directions, one or two columns, with
\* and without an inclusion mask for the page.
SpreadMargins ==
    { <<>>, <<MarginZero>>, <<MarginAuto>>, <<MarginPercents(<<10>>)>>,
      <<MarginPercents(<<10, 0, 10, 0>>)>> }

SpreadArguments ==
    [overlap : BOOLEAN,
     vsplit_target : {<<>>},
     hsplit_count : {<<>>, <<2>>},
     hsplit_overlap : {<<>>},
     vsplit_min_overlap : {<<>>},
     hsplit_max_width : {<<>>},
     manga : BOOLEAN,
     split_all : {FALSE},
     special_split : { <<>>, <<Specifier(1, 2, 2, <<"1", "0", "1">>, <<>>)>> },
     special_contrast : {<<>>},
     contrast_boost : {<<>>},
     split_spreads : { <<>>, << <<"all">> >>, << <<"1">> >> },
     dont_split : {<<>>},
     skip : {<<>>},
     only : {<<>>},
     start : {<<>>},
     stop : {<<>>},
     select_overviews : {<<>>},
     include_overviews : BOOLEAN,
     margin : SpreadMargins,
     unparsable : {{}}]

SpreadPages == { <<2000, 3000>>, <<3000, 2000>>, <<3001, 2000>>, <<4000, 2000>> }

SpreadInit ==
    /\ InitWith(SpreadArguments, { << <<page>> >> : page \in SpreadPages }, {1})
    /\ padding = NoPadding
    /\ boost = NoBoost
    /\ gui = NoGui
    /\ cbz_files = PlainFiles(Cardinality(DOMAIN cbz))

SpreadSpec == SpreadInit /\ [][Next]_vars

(***************************************************************************)
(* The editor window of --gui.  The options text is kept as the list of    *)
(* the values that split(" --") gives after the program's own name; a      *)
(* value is the option's name and the page list split(' ')[1].split(',')   *)
(* makes of its argument, <<>> for an option without an argument.  TK      *)
(* holds the four checkboxes of every page, named as refresh_options names *)
(* what has changed, and events counts the clicks and key releases the     *)
(* window has handled.                                                     *)
(***************************************************************************)
NumPages == 2
MaxEvents == 3

Checkboxes == {"skip", "dontsplit", "selectoverviews", "splitspreads"}

\* the option a checkbox stands for
OptionName(what_changed) ==
    CASE what_changed = "skip" -> "skip"
      [] what_changed = "dontsplit" -> "dont-split"
      [] what_changed = "selectoverviews" -> "select-overviews"
      [] what_changed = "splitspreads" -> "split-spreads"

OptionValue(param_name, page_list) == [param_name |-> param_name, page_list |-> page_list]

\* the empty string modify_list_in_option returns for an empty list
EmptyValue == OptionValue("", <<>>)

\* val.startswith(name + " ")
StartsWithOption(val, name) == val.param_name = name /\ val.page_list # <<>>

\* int(text) raises ValueError unless text is a number
IsNumber(text) == InList(text, PageText)
IntOf(text) == IndexOf(text, PageText)

\* page_list.remove(x): the first x is taken out
RECURSIVE RemoveFirst(_, _)
RemoveFirst(page_list, x) ==
    IF page_list = <<>> THEN <<>>
    ELSE IF Head(page_list) = x THEN Tail(page_list)
    ELSE <<Head(page_list)>> \o RemoveFirst(Tail(page_list), x)

\* page_list.sort(key=int), a stable sort
RECURSIVE InsertByInt(_, _)
InsertByInt(x, sorted) ==
    IF sorted = <<>> THEN <<x>>
    ELSE IF IntOf(sorted[Len(sorted)]) <= IntOf(x) THEN Append(sorted, x)
    ELSE Append(InsertByInt(x, SubSeq(sorted, 1, Len(sorted) - 1)), sorted[Len(sorted)])

RECURSIVE SortByInt(_)
SortByInt(page_list) ==
    IF page_list = <<>> THEN <<>>
    ELSE InsertByInt(page_list[Len(page_list)],
                     SortByInt(SubSeq(page_list, 1, Len(page_list) - 1)))

\* page_list of modify_list_in_option before it is sorted
ModifiedList(starting_string, number_to_mod, add_it) ==
    IF add_it
    THEN IF InList(str(number_to_mod), starting_string.page_list)
         THEN starting_string.page_list
         ELSE Append(starting_string.page_list, str(number_to_mod))
    ELSE IF InList(str(number_to_mod), starting_string.page_list)
         THEN RemoveFirst(starting_string.page_list, str(number_to_mod))
         ELSE starting_string.page_list

\* the sort raises ValueError when an entry of the list is not a number
ModifyRaises(starting_string, number_to_mod, add_it) ==
    \E i \in 1..Len(ModifiedList(starting_string, number_to_mod, add_it)) :
        ~IsNumber(ModifiedList(starting_string, number_to_mod, add_it)[i])

modify_list_in_option(starting_string, number_to_mod, add_it) ==
    IF ModifiedList(starting_string, number_to_mod, add_it) = <<>> THEN EmptyValue
    ELSE OptionValue(starting_string.param_name,
                     SortByInt(ModifiedList(starting_string, number_to_mod, add_it)))

NotEmpty(val) == val # EmptyValue

\* The options text after refresh_options(page_index, what_changed): every
\* value of the option is rewritten; when there is none and the checkbox is
\* set, a value naming the page is added at the end.  An exception in
\* modify_list_in_option ends the callback before the text is written.
refresh_options(split_values, new_bool, page_num, what_changed) ==
    IF \E i \in DOMAIN split_values :
           StartsWithOption(split_values[i], OptionName(what_changed))
    THEN IF \E i \in DOMAIN split_values :
                /\ StartsWithOption(split_values[i], OptionName(what_changed))
                /\ ModifyRaises(split_values[i], page_num, new_bool)
         THEN split_values
         ELSE SelectSeq([i \in DOMAIN split_values |->
                            IF StartsWithOption(split_values[i], OptionName(what_changed))
                            THEN modify_list_in_option(split_values[i], page_num, new_bool)
                            ELSE split_values[i]],
                        NotEmpty)
    ELSE IF new_bool
         THEN Append(split_values, OptionValue(OptionName(what_changed), <<str(page_num)>>))
         ELSE split_values

\* the values of an option that parse_options takes for changed: those not
\* among the values of previous_options
ChangedValues(split_values, split_previous, what_changed) ==
    {i \in DOMAIN split_values :
        /\ ~InList(split_values[i], split_previous)
        /\ StartsWithOption(split_values[i], OptionName(what_changed))}

\* The checkboxes after parse_options: for every changed value of an option,
\* in the order of the text, the checkbox of every page is set to whether the
\* value lists the page; the checkboxes of an option without a changed value
\* stay as they are.
parse_options(split_values, split_previous, TK) ==
    [what_changed \in Checkboxes |->
        LET changed == ChangedValues(split_values, split_previous, what_changed)
        IN  IF changed = {} THEN TK[what_changed]
            ELSE LET last == CHOOSE i \in changed : \A k \in changed : k <= i
                 IN  [page_num \in 1..NumPages |->
                         InList(str(page_num), split_values[last].page_list)]]

\* the texts with which the window opens and which an edit can leave
GuiTexts ==
    { <<>>,
      <<OptionValue("skip", <<"1">>)>>,
      <<OptionValue("skip", <<"1", "2">>)>>,
      <<OptionValue("skip", <<"2", "">>)>>,
      <<OptionValue("overlap", <<>>), OptionValue("dont-split", <<"1">>)>>,
      <<OptionValue("select-overviews", <<"2">>)>>,
      <<OptionValue("split-spreads", <<"all">>)>>,
      <<OptionValue("split-spreads", <<"1">>), OptionValue("skip", <<"2">>)>> }

\* The window after ScrollableImageFrame.__init__: every checkbox is made
\* with value 0, previous_options is "", and parse_options reads the text,
\* which is the command line.
GuiOpened(text) ==
    [open |-> TRUE,
     options_box |-> text,
     previous_options |-> text,
     TK |-> parse_options(text, <<>>,
                          [what_changed \in Checkboxes |->
                              [page_num \in 1..NumPages |-> FALSE]]),
     STRING_ARGS |-> text,
     events |-> 0]

GuiInit ==
    /\ InitWith({NoArguments}, {<<>>}, {1})
    /\ padding = NoPadding
    /\ boost = NoBoost
    /\ cbz_files = PlainFiles(Cardinality(DOMAIN cbz))
    /\ gui \in {GuiOpened(text) : text \in GuiTexts}

GuiUnchanged ==
    UNCHANGED <<Inputs, padding, boost, Tables, task, pc, idx, loc, emitted, failed,
                calls>>

\* skip_clicked, dontsplit_clicked, selectoverviews_clicked and
\* splitspreads_clicked: Tk has toggled the checkbox, and refresh_options
\* rewrites the text
clicked(what_changed, page_num) ==
    /\ gui.open
    /\ gui.events < MaxEvents
    /\ gui' = [gui EXCEPT
                 !.events = @ + 1,
                 !.TK[what_changed][page_num] = ~@,
                 !.options_box = refresh_options(gui.options_box,
                                                 ~gui.TK[what_changed][page_num],
                                                 page_num, what_changed)]
    /\ GuiUnchanged

\* on_key_release: the user has changed the text, and parse_options reads it
on_key_release(text) ==
    /\ gui.open
    /\ gui.events < MaxEvents
    /\ gui' = [gui EXCEPT
                 !.events = @ + 1,
                 !.options_box = text,
                 !.previous_options = text,
                 !.TK = parse_options(text, gui.previous_options, gui.TK)]
    /\ GuiUnchanged

\* on_closing: the text becomes the command line
on_closing ==
    /\ gui.open
    /\ gui' = [gui EXCEPT !.STRING_ARGS = gui.options_box, !.open = FALSE]
    /\ GuiUnchanged

GuiNext ==
    \/ \E what_changed \in Checkboxes : \E page_num \in 1..NumPages :
           clicked(what_changed, page_num)
    \/ \E text \in GuiTexts : on_key_release(text)
    \/ on_closing

GuiSpec == GuiInit /\ [][GuiNext]_vars

(***************************************************************************)
(* Properties of the segment tile rects.  While a call of optimize_image   *)
(* is in its segment loop, loc holds the plan: the counts of rows and      *)
(* columns and the two strides, from which every rect follows.             *)
(***************************************************************************)
InSegmentLoop(a) == pc[a] \in {"segment", "head", "pop_len", "pop"}

Rows(g) == 0..(g.number_of_v_segments - 1)
Columns(g) == 0..(g.number_of_h_segments - 1)

\* a page planned from the global options alone, with a first row count
\* inside the alphabet
PlainPlan(a) ==
    /\ InSegmentLoop(a)
    /\ ~HasSpecialSplit(idx[a])
    /\ first_v_segments(idx[a]) < MaxVSegments

\* C1: the segment rects of a split page leave no gap: the first row and
\* column start at 0, the last end at the page's height and width, and each
\* row (column) begins no later than the one before it ends.
C1_NoGap ==
    \A a \in Archives : PlainPlan(a) =>
        LET g == loc[a]
            first == SegmentBox(g, 0, 0)
            last == SegmentBox(g, g.number_of_v_segments - 1,
                               g.number_of_h_segments - 1)
        IN  /\ first[1] = 0 /\ first[2] = 0
            /\ last[3] = g.width /\ last[4] = g.height
            /\ \A v \in Rows(g) : v + 1 \in Rows(g) =>
                   SegmentBox(g, v + 1, 0)[2] <= SegmentBox(g, v, 0)[4]
            /\ \A h \in Columns(g) : h + 1 \in Columns(g) =>
                   SegmentBox(g, 0, h + 1)[1] <= SegmentBox(g, 0, h)[3]

\* C2: every segment rect lies inside the page and is neither empty nor
\* inverted: 0 <= left < right <= W and 0 <= top < bottom <= H.
C2_RectInsidePage ==
    \A a \in Archives : PlainPlan(a) =>
        LET g == loc[a]
        IN  \A v \in Rows(g) : \A h \in Columns(g) :
                LET box == SegmentBox(g, v, h)
                IN  /\ 0 <= box[1] /\ box[1] < box[3] /\ box[3] <= g.width
                    /\ 0 <= box[2] /\ box[2] < box[4] /\ box[4] <= g.height

\* the number of pixel rows the rects of rows v and v + 1 share
RectOverlap(g, v) == SegmentBox(g, v, 0)[4] - SegmentBox(g, v + 1, 0)[2]

\* a page whose row count comes out of the search loop with the configured
\* minimum: no special split, and the loop did not stop at its cap
SearchedPlan(a) ==
    /\ InSegmentLoop(a)
    /\ ~HasSpecialSplit(idx[a])
    /\ loc[a].number_of_v_segments < MaxVSegments

\* C3 as stated: without a special split and below the cap of 26 rows, the
\* rects of vertically adjacent segments share at least
\* MINIMUM_V_OVERLAP_PERCENT percent of the tile height (overlapping_height).
C3_RectOverlapAtLeastMinimum ==
    \A a \in Archives : SearchedPlan(a) =>
        LET g == loc[a]
        IN  \A v \in Rows(g) : v + 1 \in Rows(g) =>
                RectOverlap(g, v) * 100 >=
                    MINIMUM_V_OVERLAP_PERCENT * g.overlapping_height

\* C3 amended: without a special split and below the cap of 26 rows, the
\* vertical stride is at most (100 - MINIMUM_V_OVERLAP_PERCENT) percent of the
\* tile height, and the rects of adjacent rows share at least
\* MINIMUM_V_OVERLAP_PERCENT percent of the tile height less (rows - 2) pixels.
C3_StrideWithinMinimum ==
    \A a \in Archives : SearchedPlan(a) =>
        LET g == loc[a]
        IN  /\ g.shiftdown_to_overlap * 100 <=
                   g.overlapping_height * (100 - MINIMUM_V_OVERLAP_PERCENT)
            /\ \A v \in Rows(g) : v + 1 \in Rows(g) =>
                   RectOverlap(g, v) * 100 >=
                       MINIMUM_V_OVERLAP_PERCENT * g.overlapping_height
                         - 100 * (g.number_of_v_segments - 2)

\* C3 witness: a searched plan of several rows, two of them saved, whose
\* rects share fewer pixels than the minimum percentage of the tile height.
C3_Witness ==
    \E a \in Archives :
        /\ SearchedPlan(a)
        /\ loc[a].number_of_v_segments >= 3
        /\ loc[a].v >= 1
        /\ Len(emitted[a]) >= 2
        /\ MINIMUM_V_OVERLAP_PERCENT > 0
        /\ RectOverlap(loc[a], 0) * 100 <
               MINIMUM_V_OVERLAP_PERCENT * loc[a].overlapping_height

(***************************************************************************)
(* Properties of the inclusion masks and of the shared tables.             *)
(***************************************************************************)
\* the tables as main built them from the command line
ParsedTables ==
    <<ParsePages(argv.special_split), ParseHSplits(argv.special_split),
      ParseVSplits(argv.special_split), ParseBooleans(argv.special_split),
      ParseHOverlap(argv.special_split, SET_H_OVERLAP_PERCENT),
      ParseContrastPages(argv.special_contrast),
      ParseContrastDarks(argv.special_contrast),
      ParseContrastLights(argv.special_contrast)>>

\* the inclusion mask the command line gives a page
ConfiguredMask(page_num) ==
    IF HasSpecialSplit(page_num)
    THEN ParseBooleans(argv.special_split)[special_split_pos(page_num)]
    ELSE <<>>

\* The segment loop of one call run without interruption on its own list:
\* the files it saves, whether it left through the except path, and the list
\* as it leaves it.
RECURSIVE SoloLoop(_, _, _, _)
SoloLoop(page_num, l, list, files) ==
    LET box == SegmentBox(l, l.v, l.h)
        included == Len(list) = 0 \/ Head(list) = "1"
    IN  IF CropRaises(box) \/ RowLabelRaises(l.v) \/ ColLabelRaises(l, l.h)
        THEN [files |-> files, failed |-> TRUE, list |-> list]
        ELSE IF included /\ SaveRaises(box)
        THEN [files |-> files, failed |-> TRUE, list |-> list]
        ELSE LET file == Tagged(SegmentFile(page_num, RowLabel(l.v), ColLabel(l, l.h),
                                            l.v, l.h, box),
                                l.suffix)
                 saved == IF included THEN Append(files, file) ELSE files
                 rest == IF Len(list) > 0 THEN PopFirst(list) ELSE list
             IN  IF LoopDone(l) THEN [files |-> saved, failed |-> FALSE, list |-> rest]
                 ELSE SoloLoop(page_num, Advanced(l), rest, saved)

\* the calls of optimize_image for one page, each run without interruption
RECURSIVE SoloCalls(_, _, _, _, _, _)
SoloAfterLoop(page_num, page, pending, raised, loop) ==
    SoloCalls(page_num, page, pending, loop.list, loop.files, loop.failed \/ raised)

SoloAfterCalls(page_num, page, list, next) ==
    IF next.pc # "segment"
    THEN [files |-> next.emitted, failed |-> next.failed # {}]
    ELSE SoloAfterLoop(page_num, page, next.loc.pending, next.failed # {},
                       SoloLoop(page_num, next.loc, list, next.emitted))

SoloCalls(page_num, page, pending, list, files, raised) ==
    SoloAfterCalls(page_num, page, list,
                   Calls(page_num, page, pending, files,
                         IF raised THEN {page_num} ELSE {}))

\* optimize_image for one page of an archive processed alone
SoloPage(page_num, page) ==
    SoloCalls(page_num, page, << <<>> >>, ConfiguredMask(page_num), <<>>, FALSE)

\* the pages extract_cbz_to_png hands to optimize_image: those before the
\* first member that cannot be read
PagesRead(a) ==
    IF \E n \in 1..Len(cbz[a]) : Fault(cbz[a][n]) = "unreadable"
    THEN (CHOOSE n \in 1..Len(cbz[a]) :
              /\ Fault(cbz[a][n]) = "unreadable"
              /\ \A m \in 1..(n - 1) : Fault(cbz[a][m]) # "unreadable") - 1
    ELSE Len(cbz[a])

\* extract_cbz_to_png for the first n pages of archive a processed alone
RECURSIVE SoloFiles(_, _)
SoloFiles(a, n) ==
    IF n = 0 THEN <<>>
    ELSE SoloFiles(a, n - 1) \o SoloPage(n, cbz[a][n]).files

SoloFailed(a) ==
    {n \in 1..PagesRead(a) : SoloPage(n, cbz[a][n]).failed}

\* C4: a page processed a second time under the same configuration (the same
\* page number and size in a later archive, after the first archive is done)
\* gets the same emitted tiles as the first time.
C4_SamePageSameTiles ==
    max_workers = 1 =>
        \A a, b \in Archives :
            pc[a] = "done" /\ pc[b] = "done" /\ cbz[a] = cbz[b] =>
                emitted[a] = emitted[b] /\ failed[a] = failed[b]

\* C5: whenever no call of optimize_image is in its segment loop, the
\* special-split and special-contrast tables hold the values main gave them.
C5_TablesUnchanged ==
    (\A a \in Archives : ~InSegmentLoop(a)) => Tables = ParsedTables

\* C6: with parallel workers, every finished archive has the emitted tiles
\* and the failed pages it has when it is processed alone.
C6_SameAsAlone ==
    max_workers > 1 =>
        \A a \in Archives : pc[a] = "done" =>
            /\ emitted[a] = SoloFiles(a, PagesRead(a))
            /\ failed[a] = SoloFailed(a)

\* the tiles of the plan in row-major order, numbered from 1
PlannedTiles(page_num, g) ==
    [k \in 1..(g.number_of_v_segments * g.number_of_h_segments) |->
        LET v == (k - 1) \div g.number_of_h_segments
            h == (k - 1) % g.number_of_h_segments
        IN  SegmentFile(page_num, RowLabel(v), ColLabel(g, h), v, h,
                        SegmentBox(g, v, h))]

PageTiles(a, page_num) ==
    {emitted[a][i] : i \in {j \in 1..Len(emitted[a]) : emitted[a][j].page = page_num}}

\* C7: a page with inclusion mask m whose plan has Nv x Nh tiles is rendered
\* as exactly the planned tiles k (row-major, from 0) with k >= len(m) or
\* m[k] = '1', each with the rect and labels of the plan.
C7_MaskSelectsTiles ==
    max_workers = 1 =>
        \A a \in Archives : pc[a] = "done" =>
            \A n \in 1..Len(cbz[a]) :
                /\ HasSpecialSplit(n)
                /\ Call(n, cbz[a][n], <<>>).way = "segment"
                /\ n \notin failed[a]
                => LET m == ConfiguredMask(n)
                       plan == PlannedTiles(n, CallLocals(n, cbz[a][n], <<>>, <<>>))
                       kept == {k \in 1..Len(plan) : k > Len(m) \/ m[k] = "1"}
                   IN  PageTiles(a, n) = {plan[k] : k \in kept}

(***************************************************************************)
(* Properties of the labels.                                               *)
(***************************************************************************)
SegmentTiles(a) ==
    {emitted[a][i] : i \in {j \in 1..Len(emitted[a]) : emitted[a][j].kind = "segment"}}

\* cbz2xtc --overlap --hsplit-count 2, and the crop boxes the program saves
\* for a 2000x3000 page under it
TwoColumnArguments ==
    [NoArguments EXCEPT !.overlap = TRUE, !.hsplit_count = <<2>>]

TwoColumnRects ==
    { <<0, 0, 1538, 921>>, <<462, 0, 2000, 921>>,
      <<0, 693, 1538, 1614>>, <<462, 693, 2000, 1614>>,
      <<0, 1386, 1538, 2307>>, <<462, 1386, 2000, 2307>>,
      <<0, 2079, 1538, 3000>>, <<462, 2079, 2000, 3000>> }

TwoColumnPage(a) ==
    /\ pc[a] = "done"
    /\ cbz[a] = << <<2000, 3000>> >>
    /\ [argv EXCEPT !.manga = FALSE] = TwoColumnArguments

\* C8: with --manga the rects are those saved without it, and within every
\* row the files' column letters run from the rightmost column to the
\* leftmost (without it, from the leftmost to the rightmost): of two saved
\* segments of a row, the one further right has the earlier letter.
C8_MangaReversesColumns ==
    \A a \in Archives :
        /\ \A s, t \in SegmentTiles(a) :
               /\ s.page = t.page /\ s.v = t.v
               /\ s.col # "" /\ t.col # ""
               /\ s.box[1] < t.box[1]
               => IF IS_MANGA THEN LetterRank(s.col) > LetterRank(t.col)
                  ELSE LetterRank(s.col) < LetterRank(t.col)
        /\ TwoColumnPage(a) => {t.box : t \in SegmentTiles(a)} = TwoColumnRects

\* C8 witness: a finished two-column page under --manga, all 8 segments saved
C8_Witness ==
    \E a \in Archives :
        /\ IS_MANGA
        /\ TwoColumnPage(a)
        /\ Cardinality(SegmentTiles(a)) = 8
        /\ \E s, t \in SegmentTiles(a) : s.v = t.v /\ s.box[1] < t.box[1]

\* C9: a page with a special split asking for v vertical segments is planned
\* with exactly v rows (stated here for pages no taller than twice their
\* width).
C9_SpecialRowCount ==
    \A a \in Archives :
        /\ InSegmentLoop(a)
        /\ HasSpecialSplit(idx[a])
        /\ loc[a].height <= 2 * loc[a].width
        =>
        loc[a].number_of_v_segments =
            SPECIAL_SPLIT_VSPLITS[special_split_pos(idx[a])]

\* C10: no page gets more than 26 rows of saved segments, and every saved
\* segment's row index is below 26, whatever --vsplit-target or special
\* split asks for.
C10_AtMost26Rows ==
    \A a \in Archives :
        /\ \A t \in SegmentTiles(a) : t.v < MaxVSegments
        /\ \A n \in 1..Len(cbz[a]) :
               Cardinality({t.v : t \in {s \in SegmentTiles(a) : s.page = n}})
                   <= MaxVSegments

\* C10 witness: a page planned with more than 26 rows has its first 26 rows
\* saved and is then abandoned
C10_Witness ==
    \E a \in Archives :
        /\ first_v_segments(1) >= MaxVSegments
        /\ failed[a] = {1}
        /\ Len(emitted[a]) = MaxVSegments
        /\ emitted[a][MaxVSegments].v = MaxVSegments - 1

(***************************************************************************)
(* The split of a page for which no overlap segmentation is requested.     *)
(***************************************************************************)
\* a finished archive of one page that was to be split while neither
\* --overlap nor a segment count nor a special split of the page was given
SplitWithoutPolicy(a) ==
    /\ pc[a] = "done"
    /\ Len(cbz[a]) = 1
    /\ should_this_split(1, <<>>, cbz[a][1][1], cbz[a][1][2])
    /\ ~SegmentationRequested
    /\ ~HasSpecialSplit(1)

\* C11: a split page with no overlap or segmentation policy (overlap off,
\* no vertical or horizontal count, no special split of the page) is saved as
\* exactly two tiles: the top half, rows [0, H div 2), and the bottom half,
\* rows [H div 2, H), both of full width.
C11_TwoHalves ==
    \A a \in Archives : SplitWithoutPolicy(a) =>
        emitted[a] = LegacyHalves(1, cbz[a][1][1], cbz[a][1][2])

(***************************************************************************)
(* A single column.                                                        *)
(***************************************************************************)
\* C20: a page planned with one column has a horizontal stride of 0, every
\* rect of the plan spans the full width [0, W], and no row has more than one
\* saved tile.
C20_SingleColumn ==
    \A a \in Archives :
        InSegmentLoop(a) /\ loc[a].number_of_h_segments = 1 =>
            /\ loc[a].shiftover_to_overlap = 0
            /\ Columns(loc[a]) = {0}
            /\ \A v \in Rows(loc[a]) :
                   /\ SegmentBox(loc[a], v, 0)[1] = 0
                   /\ SegmentBox(loc[a], v, 0)[3] = loc[a].width
            /\ \A i \in 1..Len(emitted[a]) :
                   /\ emitted[a][i].h = 0
                   /\ emitted[a][i].col = ""
                   /\ emitted[a][i].box[1] = 0
                   /\ emitted[a][i].box[3] = loc[a].width
                   /\ \A j \in 1..Len(emitted[a]) :
                          emitted[a][j].v = emitted[a][i].v => j = i

\* C20 witness: a one-column plan of several rows whose second row is being
\* cut after the first was saved
C20_Witness ==
    \E a \in Archives :
        /\ pc[a] = "segment"
        /\ loc[a].number_of_h_segments = 1
        /\ loc[a].number_of_v_segments > 1
        /\ loc[a].v = 1
        /\ Len(emitted[a]) = 1
        /\ loc[a].width > TARGET_WIDTH

(***************************************************************************)
(* The composed canvas.                                                    *)
(***************************************************************************)
\* C19: every composed canvas is 480x800 and the scaled image fits inside
\* it: its width is at most 480, its height at most 800, both paste offsets
\* are at least 0, and its width is 480 or its height is 800.
C19_CanvasFits ==
    padding.state = "saved" =>
        /\ padding.canvas = <<TARGET_WIDTH, TARGET_HEIGHT>>
        /\ padding.new_width <= TARGET_WIDTH
        /\ padding.new_height <= TARGET_HEIGHT
        /\ padding.x >= 0
        /\ padding.y >= 0
        /\ padding.new_width = TARGET_WIDTH \/ padding.new_height = TARGET_HEIGHT

(***************************************************************************)
(* What becomes of a page: spreads and their halves, pages not to split,   *)
(* pages that fail.                                                        *)
(***************************************************************************)
\* the files of page page_num of archive a, in the order they were written
RECURSIVE FilesOf(_, _)
FilesOf(files, page_num) ==
    IF files = <<>> THEN <<>>
    ELSE IF Head(files).page = page_num
         THEN <<Head(files)>> \o FilesOf(Tail(files), page_num)
         ELSE FilesOf(Tail(files), page_num)

\* page n of archive a is handed to optimize_image whole: it can be read and
\* decoded, no filter drops it, and the margins are left alone or trimmed
\* automatically
SoundPage(a, n) ==
    /\ n \in 1..Len(cbz[a])
    /\ Fault(cbz[a][n]) = "none"
    /\ \A m \in 1..n : Fault(cbz[a][m]) # "unreadable"
    /\ ~Filtered(n)
    /\ argv.margin \in {<<>>, <<MarginAuto>>}

Landscape(page) == page[1] >= page[2]

\* C12: the recursion into the halves of a spread is one level deep: no file
\* is written for a half of a half, and no half (suffix _1 or _2) is written
\* as a spread.
C12_OneLevel ==
    \A a \in Archives : \A i \in 1..Len(emitted[a]) :
        /\ Len(emitted[a][i].suffix) <= 1
        /\ emitted[a][i].kind = "spread" => emitted[a][i].suffix = <<>>

\* C13: a landscape page whose halves are requested (the page is listed in
\* --split-spreads, or the list is "all") and for which overlap segmentation
\* is on is written as one spread, and each of its two halves writes at least
\* one file with its own suffix, whether or not --margin is given.
C13_SpreadAndHalves ==
    \A a \in Archives :
        /\ pc[a] = "done"
        /\ SoundPage(a, 1)
        /\ Landscape(cbz[a][1])
        /\ HalvesRequested(1)
        /\ OVERLAP /\ ~SPLIT_ALL
        => LET files == FilesOf(emitted[a], 1)
           IN  /\ Cardinality({i \in 1..Len(files) :
                       files[i].kind = "spread" /\ files[i].suffix = <<>>}) = 1
               /\ \E i \in 1..Len(files) : files[i].suffix = <<1>>
               /\ \E i \in 1..Len(files) : files[i].suffix = <<2>>

\* C14: a page listed in --dont-split is written as exactly one file, an
\* overview of the page, whatever its orientation and whatever --split-all
\* and --split-spreads say.
C14_DontSplitOverview ==
    \A a \in Archives :
        /\ pc[a] = "done"
        /\ SoundPage(a, 1)
        /\ InList(str(1), DONT_SPLIT_PAGES)
        => LET files == FilesOf(emitted[a], 1)
           IN  /\ Len(files) = 1
               /\ files[1].kind = "overview"
               /\ files[1].suffix = <<>>

\* C15: with --split-all every page that is processed and not listed in
\* --dont-split is cut into segments, landscape pages too: it has a segment
\* file and no spread file.
C15_SplitAllSegments ==
    \A a \in Archives :
        /\ pc[a] = "done"
        /\ SPLIT_ALL
        /\ SoundPage(a, 1)
        /\ ~InList(str(1), DONT_SPLIT_PAGES)
        => LET files == FilesOf(emitted[a], 1)
           IN  /\ \E i \in 1..Len(files) : files[i].kind = "segment"
               /\ \A i \in 1..Len(files) : files[i].kind # "spread"

\* C16: a page that fails stops no other page: in every finished archive,
\* each page that can be read and decoded has the files it has when it is
\* processed on its own, whatever happened to the pages before it and to the
\* other archives.
C16_FailureIsolated ==
    max_workers = 1 =>
        \A a \in Archives : pc[a] = "done" =>
            \A n \in 1..Len(cbz[a]) :
                Fault(cbz[a][n]) = "none" /\ ~HasSpecialSplit(n) =>
                    FilesOf(emitted[a], n) = SoloPage(n, cbz[a][n]).files

\* the top-level call finds its image without width or without height after
\* the margins are cut
Degenerate(page) ==
    /\ ~CallImage(page, <<>>).raises
    /\ CallImage(page, <<>>).width = 0 \/ CallImage(page, <<>>).height = 0

\* C17: a page that cannot be decoded, or whose image has no width or no
\* height after cropping, has no file at all, not even an overview, and the
\* pages after it are processed.
C17_NoTilesForBadPage ==
    \A a \in Archives : pc[a] = "done" =>
        /\ idx[a] >= PagesRead(a)
        /\ \A n \in 1..PagesRead(a) :
               Fault(cbz[a][n]) = "undecodable" \/ Degenerate(cbz[a][n]) =>
                   FilesOf(emitted[a], n) = <<>>

\* a page number as the command line may give it
NumericText(text) == \E n \in 1..Len(PageText) : PageText[n] = text

\* a page list with an entry that is no page number ("all" is an entry
\* --split-spreads knows)
MalformedList(option) ==
    option # <<>> /\ \E i \in 1..Len(option[1]) : ~NumericText(option[1][i])

Malformed ==
    \/ ParseRaises
    \/ MalformedList(argv.skip)
    \/ MalformedList(argv.only)
    \/ MalformedList(argv.dont_split)
    \/ MalformedList(argv.select_overviews)
    \/ /\ argv.split_spreads # <<>>
       /\ \E i \in 1..Len(argv.split_spreads[1]) :
              /\ ~NumericText(argv.split_spreads[1][i])
              /\ argv.split_spreads[1][i] # "all"

\* C18: a command line with a malformed specifier or page list is rejected
\* before any page is processed: no archive is started and no file written.
C18_MalformedRejected ==
    Malformed =>
        \A a \in Archives : task[a] = "queued" /\ idx[a] = 0 /\ emitted[a] = <<>>

(***************************************************************************)
(* The row count the search loop returns.                                  *)
(***************************************************************************)
\* nv rows give a stride of at most (100 - minv) percent of the tile height
StrideAllows(nv, oh, height, minv) ==
    Shiftdown(nv, oh, height) * 100 <= oh * (100 - minv)

\* the smallest row count from nv0 to the cap that StrideAllows, the cap when
\* there is none
SmallestAllowed(nv0, oh, height, minv) ==
    LET allowed == {nv \in nv0..MaxVSegments : StrideAllows(nv, oh, height, minv)}
    IN  IF allowed = {} THEN MaxVSegments
        ELSE CHOOSE nv \in allowed : \A other \in allowed : nv <= other

\* C21: without a special split the search loop leaves the smallest row count
\* Nv, DESIRED_V_OVERLAP_SEGMENTS <= Nv <= 26, whose stride is at most
\* (100 - MINIMUM_V_OVERLAP_PERCENT) percent of the tile height, and 26 when
\* there is none; a 2000x3000 page with one column, a maximum width of 800,
\* three desired rows and a minimum overlap of 5 gets a tile height of 1200
\* and three rows.
C21_SmallestRowCount ==
    \A a \in Archives :
        InSegmentLoop(a) /\ ~HasSpecialSplit(idx[a]) =>
            /\ loc[a].number_of_v_segments =
                   SmallestAllowed(DESIRED_V_OVERLAP_SEGMENTS,
                                   loc[a].overlapping_height, loc[a].height,
                                   MINIMUM_V_OVERLAP_PERCENT)
            /\ ( /\ loc[a].width = 2000 /\ loc[a].height = 3000
                 /\ loc[a].number_of_h_segments = 1
                 /\ MAX_SPLIT_WIDTH = 800
                 /\ DESIRED_V_OVERLAP_SEGMENTS = 3
                 /\ MINIMUM_V_OVERLAP_PERCENT = 5 )
               => /\ loc[a].overlapping_height = 1200
                  /\ loc[a].number_of_v_segments = 3

(***************************************************************************)
(* The page filters.                                                       *)
(***************************************************************************)
\* page n passes --skip, --only, and the --start and --stop pages that count
\* (a page number of 1 or more)
PassesFilters(n) ==
    /\ ~InList(str(n), SKIP_PAGES)
    /\ START_PAGE >= 1 => n >= START_PAGE
    /\ STOP_PAGE >= 1 => n <= STOP_PAGE
    /\ ONLY_ON => InList(str(n), ONLY_PAGES)

ClaimedPair(page_num) ==
    IF HasSpecialContrast(page_num) THEN SpecialContrast(page_num)
    ELSE IF CONTRAST_BOOST THEN GlobalContrast
    ELSE <<DefaultContrastLevel, DefaultContrastLevel>>

\* C23 as stated: a page with a special-contrast override (d, l) gets the
\* cutoffs (3d, 3 + 9l) whatever --contrast-boost says, a page without one the
\* cutoffs of the command line's level or pair, and (12, 39) when there is
\* none.
C23_CutoffsOfPair ==
    boost.state = "returned" =>
        boost.cutoff = Cutoff(ClaimedPair(boost.page_num))

\* C23 amended: the same, except that a pair of 0 and 0, or of one level
\* outside 0..8 given twice, applies no cutoffs at all.
C23_CutoffsOrNone ==
    boost.state = "returned" =>
        /\ boost.cutoff = IF LeavesImage(ClaimedPair(boost.page_num)) THEN <<>>
                          ELSE Cutoff(ClaimedPair(boost.page_num))
        /\ ~HasSpecialContrast(boost.page_num) /\ ~CONTRAST_BOOST =>
               boost.cutoff = <<12, 39>>

\* C23 witness: a page whose override differs from the pair of the command
\* line has been given the cutoffs of its override.
C23_Witness ==
    /\ boost.state = "returned"
    /\ HasSpecialContrast(boost.page_num)
    /\ CONTRAST_BOOST
    /\ Cutoff(GlobalContrast) # Cutoff(SpecialContrast(boost.page_num))
    /\ ~LeavesImage(GlobalContrast)
    /\ boost.cutoff = Cutoff(SpecialContrast(boost.page_num))

(***************************************************************************)
(* The calls of optimize_image for one page.                               *)
(***************************************************************************)
\* C24: processing a page ends after a bounded number of calls of
\* optimize_image: the call for the page and at most one call for each of its
\* two halves, three calls in all, for every page size and command line.
C24_AtMostTwoHalfCalls ==
    \A a \in Archives : calls[a] <= 3

(***************************************************************************)
(* The row count of every plan.                                            *)
(***************************************************************************)
\* the first call of optimize_image for the page the thread is at has planned
\* segments: the page is split and lines 308-344 ran to their end
SegmentationRuns(a) ==
    /\ idx[a] >= 1
    /\ pc[a] # "error"
    /\ Fault(cbz[a][idx[a]]) # "undecodable"
    /\ ~Filtered(idx[a])
    /\ ~CallImage(cbz[a][idx[a]], <<>>).raises
    /\ should_this_split(idx[a], <<>>, CallImage(cbz[a][idx[a]], <<>>).width,
                         CallImage(cbz[a][idx[a]], <<>>).height)
    /\ Call(idx[a], cbz[a][idx[a]], <<>>).way \in {"segment", "return"}

\* the plan of that call
PlanOf(a) ==
    Geometry(idx[a], CallImage(cbz[a][idx[a]], <<>>).width,
             CallImage(cbz[a][idx[a]], <<>>).height)

\* C25: whenever segmentation runs for a split page, its plan has at least one
\* row and at least as many rows as the desired minimum (the vertical target,
\* or the vsplit of the page's special split), whether segmentation was asked
\* for by --overlap, --vsplit-target, --hsplit-count alone or --special-split.
C25_AtLeastDesiredRows ==
    \A a \in Archives : SegmentationRuns(a) =>
        /\ PlanOf(a).number_of_v_segments >= 1
        /\ PlanOf(a).number_of_v_segments >= first_v_segments(idx[a]) + 1

(***************************************************************************)
(* The folders and files of the archives of one batch.                     *)
(***************************************************************************)
\* C26: two different archives of one batch never have the same folder of
\* PNG files or the same .xtc output file, and no PNG file is written by the
\* threads of two archives.
C26_NoSharedPaths ==
    \A a \in Archives : \A b \in Archives : a # b =>
        /\ output_folder(a) # output_folder(b)
        /\ output_file(a) # output_file(b)
        /\ \A i \in DOMAIN emitted[a] : \A j \in DOMAIN emitted[b] :
               PngPath(a, emitted[a][i]) # PngPath(b, emitted[b][j])

(***************************************************************************)
(* The order of the files of one page.                                     *)
(***************************************************************************)
\* the call with suffix s comes before the call with suffix t: s begins t, or
\* the two part at a place where s has the first half and t the second
SuffixBefore(s, t) ==
    /\ s # t
    /\ \/ /\ Len(s) < Len(t)
          /\ \A k \in 1..Len(s) : s[k] = t[k]
       \/ \E k \in 1..Len(s) :
              /\ k <= Len(t)
              /\ s[k] < t[k]
              /\ \A m \in 1..(k - 1) : s[m] = t[m]

\* among the files of one call: the overview or the spread before every
\* segment, and the segments row by row, each row from its first column on
TileBefore(f, g) ==
    \/ f.kind \in {"overview", "spread"} /\ g.kind \in {"segment", "legacy"}
    \/ /\ f.kind \in {"segment", "legacy"} /\ g.kind \in {"segment", "legacy"}
       /\ \/ f.v < g.v
          \/ f.v = g.v /\ f.h < g.h

\* C27: the files of one page are written in a fixed order: the overview of
\* a call before its segments, the segments in row-major order, the spread of
\* a call before every file of its sub-page _1, and every file of sub-page _1
\* before every file of sub-page _2.
C27_EmissionOrder ==
    \A a \in Archives : \A i \in DOMAIN emitted[a] : \A j \in DOMAIN emitted[a] :
        (i < j /\ emitted[a][i].page = emitted[a][j].page) =>
            \/ SuffixBefore(emitted[a][i].suffix, emitted[a][j].suffix)
            \/ /\ emitted[a][i].suffix = emitted[a][j].suffix
               /\ TileBefore(emitted[a][i], emitted[a][j])

\* a page done with a spread, and for each half an overview and segments in
\* two columns and several rows
C27_Witness ==
    \E a \in Archives :
        /\ pc[a] = "done"
        /\ \E i \in DOMAIN emitted[a] :
               emitted[a][i].kind = "spread" /\ emitted[a][i].suffix = <<>>
        /\ \A half \in {<<1>>, <<2>>} :
               /\ \E i \in DOMAIN emitted[a] :
                      emitted[a][i].kind = "overview" /\ emitted[a][i].suffix = half
               /\ \E i \in DOMAIN emitted[a] :
                      /\ emitted[a][i].kind = "segment"
                      /\ emitted[a][i].suffix = half
                      /\ emitted[a][i].v >= 1 /\ emitted[a][i].h >= 1

(***************************************************************************)
(* The halves of a split spread.  The overview of a call shows the place   *)
(* of its uncropped image in the page.                                     *)
(***************************************************************************)
\* the overviews archive a has written for the calls with this suffix
OverviewsOf(a, page_num, suffix) ==
    {emitted[a][i].box : i \in {k \in DOMAIN emitted[a] :
        /\ emitted[a][k].page = page_num
        /\ emitted[a][k].kind = "overview"
        /\ emitted[a][k].suffix = suffix}}

\* columns [0, W - floor(W/2)) and [floor(W/2), W) of a page W wide and H high
LeftColumns(W, H) == <<0, 0, W - W \div 2, H>>
RightColumns(W, H) == <<W \div 2, 0, W, H>>

\* C28: sub-page _1 of a split spread is the left half of the page, columns
\* [0, W - floor(W/2)), in normal mode and the right half, columns
\* [floor(W/2), W), in manga mode; sub-page _2 is the other half; the two
\* halves leave no column of the page out.
C28_HalvesOfSpread ==
    \A a \in Archives : \A n \in 1..Len(cbz[a]) :
        LET W == cbz[a][n][1]
            H == cbz[a][n][2]
        IN  /\ \A box \in OverviewsOf(a, n, <<1>>) :
                   box = IF IS_MANGA THEN RightColumns(W, H) ELSE LeftColumns(W, H)
            /\ \A box \in OverviewsOf(a, n, <<2>>) :
                   box = IF IS_MANGA THEN LeftColumns(W, H) ELSE RightColumns(W, H)
            /\ \A first \in OverviewsOf(a, n, <<1>>) :
               \A second \in OverviewsOf(a, n, <<2>>) :
                   \A column \in 0..(W - 1) :
                       \/ first[1] <= column /\ column < first[3]
                       \/ second[1] <= column /\ column < second[3]

\* a spread of odd width split in manga mode, with the overviews of both halves
C28_Witness ==
    \E a \in Archives :
        /\ IS_MANGA
        /\ cbz[a][1][1] % 2 = 1
        /\ OverviewsOf(a, 1, <<1>>) # {}
        /\ OverviewsOf(a, 1, <<2>>) # {}

(***************************************************************************)
(* The crop of the halves of a spread.                                     *)
(***************************************************************************)
\* the suffixes of the calls archive a has made for the halves of page
\* page_num: those of lines 481-482 after each spread it has saved
HalfCallsMade(a, page_num) ==
    UNION {{HalfCalls(emitted[a][i].suffix)[1], HalfCalls(emitted[a][i].suffix)[2]} :
           i \in {k \in DOMAIN emitted[a] :
               /\ emitted[a][k].page = page_num
               /\ emitted[a][k].kind = "spread"
               /\ HalvesRequested(page_num)
               /\ Len(emitted[a][k].suffix) < MaxDepth}}

\* C29: every call for a half of a spread crops its half to the automatic
\* bounding box, whatever the crop mode of the command line: none, "0",
\* "auto", one percent or a percent for each side.
C29_HalvesAutoCropped ==
    \A a \in Archives : \A n \in 1..Len(cbz[a]) :
        \A suffix \in HalfCallsMade(a, n) :
            /\ ~CallImage(cbz[a][n], suffix).raises
            /\ CallImage(cbz[a][n], suffix).crop = "auto"

(***************************************************************************)
(* The checkboxes and the options text of the editor window.               *)
(***************************************************************************)
\* the options text lists the page in a value of the option
ListedInText(split_values, what_changed, page_num) ==
    \E i \in DOMAIN split_values :
        /\ StartsWithOption(split_values[i], OptionName(what_changed))
        /\ InList(str(page_num), split_values[i].page_list)

\* C30: after any clicks on checkboxes and edits of the options text, the
\* Skip, Don't-split, overview and split-spread checkbox of a page is set
\* exactly when the options text lists the page in that option, and the text
\* of the closed window is the command line.
C30_CheckboxIffListed ==
    /\ gui.open =>
           \A what_changed \in Checkboxes : \A page_num \in 1..NumPages :
               gui.TK[what_changed][page_num]
                   <=> ListedInText(gui.options_box, what_changed, page_num)
    /\ (gui # NoGui /\ ~gui.open) =>
           /\ gui.STRING_ARGS = gui.options_box
           /\ \A what_changed \in Checkboxes : \A page_num \in 1..NumPages :
                  gui.TK[what_changed][page_num]
                      <=> ListedInText(gui.STRING_ARGS, what_changed, page_num)
====
